---- MODULE Spec2Model ----
(***************************************************************************)
(* A model of the Jack/Hack toolchain of guydunton/nandtotetris-tools:     *)
(*   - the Hack assembler  (src/assembler)                                  *)
(*   - the VM translator   (src/vm-translator)                              *)
(*   - the Jack compiler   (src/compiler)                                   *)
(* together with the Hack machine on which translated programs run.         *)
(* Each tool has its own specification over its own variables; the          *)
(* variables of the other tools stay at their idle values.                  *)
(***************************************************************************)
EXTENDS Integers, Sequences, FiniteSets, TLC

VARIABLES
    \* ---- Hack assembler (src/assembler/src/main.rs) ----
    lines,          \* the parsed lines of the .asm file (Empty included)
    statements,     \* the statement list the passes work on
    symbol_table,   \* HashMap<String, u16>
    binary,         \* the words of the .hack output
    asm_pc,         \* position inside parse_and_convert_file
    \* ---- VM translator (src/vm-translator/src/main.rs) ----
    vm_files,       \* the .vm inputs: sequence of [file_name, ast]
    is_dir,         \* the path is a directory
    final_assembly, \* the assembly text built so far (sequence of lines)
    tr_result,      \* "none" | "Ok" | "TranslationError": result of parse_and_convert_vm
    tr_pc,          \* position inside parse_and_convert_vm: "idle" | "parsed" | "done"
    \* ---- Hack machine running the words of binary ----
    ram,           \* RAM, a window of the 32K words
    ram0,           \* RAM when the program was started
    regA, regD,     \* the A and D registers
    pc,             \* program counter, 0-based as the label addresses are
    \* ---- Jack compiler: expressions (src/compiler) ----
    tokens,         \* the expression's tokens
    expr,           \* the parsed Expr
    output,         \* the emitted VM lines
    vm_stack,       \* the VM operand stack while the emitted code runs
    jack_pc,        \* position: "source" | "parsed" | "compiled" | "ran"
    \* ---- Jack compiler: symbol table (src/compiler/src/symbol_table.rs) ----
    symbols,        \* the SymbolTable: [vars, scopes]
    frames,         \* what has been declared: one sequence of declarations per open scope
    \* ---- Jack compiler: classes (src/compiler/src/compiler.rs) ----
    class,          \* the Class being compiled
    vm_code,        \* the emitted VM lines
    comp_pc,        \* position: "idle" | "parsed" | "compiled" | "halted"
    \* ---- the VM running vm_code ----
    vm_ip,          \* index of the next line of vm_code
    vm_memory,      \* the operand stack, the segments and the heap
    vm_trace,       \* the marker calls executed so far
    comp_err,       \* the CompilationError or panic compile_class ended with ("" if none)
    \* ---- the three programs and the files they leave (the main.rs of each) ----
    stage,          \* the program started: "none" | "compiler" | "translator" | "assembler"
    inputs,         \* the files at the path: sequence of [file_name, state, content]
    options,        \* [dir: the path is a directory, side: --ast_output / --symbol]
    disk,           \* the files written, in order: sequence of [file_name, content]
    exit            \* "running" | "Ok" | the ErrorType or panic the program ended with

asmVars  == <<lines, statements, symbol_table, binary, asm_pc>>
trVars   == <<vm_files, is_dir, final_assembly, tr_result, tr_pc>>
cpuVars  == <<ram, ram0, regA, regD, pc>>
jackVars == <<tokens, expr, output, vm_stack, jack_pc>>
symVars  == <<symbols, frames>>
compVars == <<class, vm_code, comp_pc, vm_ip, vm_memory, vm_trace, comp_err>>
stageVars == <<stage, inputs, options, disk, exit>>
vars     == <<asmVars, trVars, cpuVars, jackVars, symVars, compVars, stageVars>>

-----------------------------------------------------------------------------
(* Machine words *)

\* u16 arithmetic wraps modulo 2^16
WordMod == 2^16
U16(n) == n % WordMod
\* the two's complement reading of a word
Signed(w) == IF w >= 2^15 THEN w - WordMod ELSE w

RECURSIVE BitAnd(_, _, _)
BitAnd(a, b, n) ==
    IF n = 0 THEN 0
    ELSE (IF a % 2 = 1 /\ b % 2 = 1 THEN 1 ELSE 0) + 2 * BitAnd(a \div 2, b \div 2, n - 1)

RECURSIVE BitOr(_, _, _)
BitOr(a, b, n) ==
    IF n = 0 THEN 0
    ELSE (IF a % 2 = 1 \/ b % 2 = 1 THEN 1 ELSE 0) + 2 * BitOr(a \div 2, b \div 2, n - 1)

And16(a, b) == BitAnd(a, b, 16)
Or16(a, b)  == BitOr(a, b, 16)
Not16(a)    == WordMod - 1 - a
Neg16(a)    == U16(WordMod - a)

-----------------------------------------------------------------------------
(* Assembler AST: src/assembler/src/parser/ast.rs.  One record shape for    *)
(* every Stmt; the fields a variant does not have are blank.                *)

\* Stmt::A(Address::Value(v))          "@v"
AValue(v)    == [kind |-> "A", is_symbol |-> FALSE, symbol |-> "", value |-> v,
                 dest |-> "", operation |-> "", jump |-> ""]
\* Stmt::A(Address::Symbol(s))         "@s"
ASymbol(s)   == [kind |-> "A", is_symbol |-> TRUE, symbol |-> s, value |-> 0,
                 dest |-> "", operation |-> "", jump |-> ""]
\* Stmt::C(Command{dest, operation, jump})   "dest=operation;jump"
CStmt(d, o, j) == [kind |-> "C", is_symbol |-> FALSE, symbol |-> "", value |-> 0,
                   dest |-> d, operation |-> o, jump |-> j]
\* Stmt::Label(name)                   "(name)"
LabelStmt(n) == [kind |-> "Label", is_symbol |-> FALSE, symbol |-> n, value |-> 0,
                 dest |-> "", operation |-> "", jump |-> ""]
\* Stmt::Empty
EmptyStmt    == [kind |-> "Empty", is_symbol |-> FALSE, symbol |-> "", value |-> 0,
                 dest |-> "", operation |-> "", jump |-> ""]

\* HashMap::insert
Insert(table, name, v) ==
    [n \in (DOMAIN table) \cup {name} |-> IF n = name THEN v ELSE table[n]]

-----------------------------------------------------------------------------
(* Assembler passes *)

create_symbol_table ==
    [n \in {"R0", "R1", "R2", "R3", "R4", "R5", "R6", "R7", "R8", "R9", "R10",
            "R11", "R12", "R13", "R14", "R15", "SCREEN", "KBD",
            "SP", "LCL", "ARG", "THIS", "THAT"} |->
        CASE n = "R0" -> 0   [] n = "R1" -> 1   [] n = "R2" -> 2   [] n = "R3" -> 3
          [] n = "R4" -> 4   [] n = "R5" -> 5   [] n = "R6" -> 6   [] n = "R7" -> 7
          [] n = "R8" -> 8   [] n = "R9" -> 9   [] n = "R10" -> 10 [] n = "R11" -> 11
          [] n = "R12" -> 12 [] n = "R13" -> 13 [] n = "R14" -> 14 [] n = "R15" -> 15
          [] n = "SCREEN" -> 16384 [] n = "KBD" -> 24576
          [] n = "SP" -> 0 [] n = "LCL" -> 1 [] n = "ARG" -> 2
          [] n = "THIS" -> 3 [] n = "THAT" -> 4]

\* the places of the Label statements, and the names they declare
LabelPlaces(stmts) == {i \in DOMAIN stmts : stmts[i].kind = "Label"}
LabelNames(stmts)  == {stmts[i].symbol : i \in LabelPlaces(stmts)}

\* label_count when the loop reaches statement i (from 1): the labels before it
LabelCountAt(stmts, i) == Cardinality({j \in LabelPlaces(stmts) : j < i})

\* the insert of name that stays: the last one
LastInsert(stmts, name) ==
    CHOOSE i \in LabelPlaces(stmts) :
        /\ stmts[i].symbol = name
        /\ \A j \in LabelPlaces(stmts) : stmts[j].symbol = name => j <= i

\* a find_labels that forgets the labels seen so far
find_labels_nocount(stmts, table) ==
    [n \in (DOMAIN table) \cup LabelNames(stmts) |->
        IF n \in LabelNames(stmts)
        THEN U16(LastInsert(stmts, n) - 1)
        ELSE table[n]]

\* find_labels: every Label inserts (line_number - label_count) under its
\* name, line_number being enumerate()'s index (from 0); an insert replaces
\* the value the name had
find_labels(stmts, table) ==
    [n \in (DOMAIN table) \cup LabelNames(stmts) |->
        IF n \in LabelNames(stmts)
        THEN U16((LastInsert(stmts, n) - 1) - LabelCountAt(stmts, LastInsert(stmts, n)))
        ELSE table[n]]

IsNotLabel(stmt) == stmt.kind # "Label"
\* a remove_all_labels that keeps the list as it is
remove_all_labels_none(stmts) == stmts
remove_all_labels(stmts) == SelectSeq(stmts, IsNotLabel)

\* the first variable slot
FirstVariable == 16

\* the places of the A statements that name a symbol
SymbolPlaces(stmts) == {i \in DOMAIN stmts : stmts[i].kind = "A" /\ stmts[i].is_symbol}

\* the symbols for which contains_key is false at their first reference
NewSymbols(stmts, table) ==
    {stmts[i].symbol : i \in {j \in SymbolPlaces(stmts) : stmts[j].symbol \notin DOMAIN table}}

FirstUse(stmts, name) ==
    CHOOSE i \in SymbolPlaces(stmts) :
        /\ stmts[i].symbol = name
        /\ \A j \in SymbolPlaces(stmts) : stmts[j].symbol = name => i <= j

\* a find_variables that spends a slot on every symbol reference
find_variables_everyref(stmts, table) ==
    [n \in (DOMAIN table) \cup NewSymbols(stmts, table) |->
        IF n \in DOMAIN table THEN table[n]
        ELSE U16(FirstVariable
                 + Cardinality({j \in SymbolPlaces(stmts) : j < FirstUse(stmts, n)}))]

\* a find_variables that runs before the labels are bound: a reference to a
\* label takes a slot as well
find_variables_labelslots(stmts, table) ==
    [n \in (DOMAIN table) \cup NewSymbols(stmts, table) |->
        IF n \in DOMAIN table THEN table[n]
        ELSE U16(FirstVariable
                 + Cardinality({m \in NewSymbols(stmts, create_symbol_table) :
                                    FirstUse(stmts, m) < FirstUse(stmts, n)}))]

\* find_variables: a symbol that is not in the table is inserted with the
\* counter, which then goes up by one; the counter at a symbol's first
\* reference is FirstVariable plus the inserts made before it
find_variables(stmts, table) ==
    [n \in (DOMAIN table) \cup NewSymbols(stmts, table) |->
        IF n \in DOMAIN table THEN table[n]
        ELSE U16(FirstVariable
                 + Cardinality({m \in NewSymbols(stmts, table) :
                                    FirstUse(stmts, m) < FirstUse(stmts, n)}))]

\* const MASK: u16 = 0b01111111_11111111
MASK == 32767

\* convert_a_statement without `& MASK`
convert_a_statement_nomask(stmt, table) ==
    IF ~stmt.is_symbol THEN stmt.value
    ELSE IF stmt.symbol \in DOMAIN table THEN table[stmt.symbol]
    ELSE -1

\* the result of convert_a_statement; -1 stands for the panic on an unknown symbol
convert_a_statement(stmt, table) ==
    IF ~stmt.is_symbol THEN stmt.value % (MASK + 1)
    ELSE IF stmt.symbol \in DOMAIN table THEN table[stmt.symbol] % (MASK + 1)
    ELSE -1

convert_operation(operation) ==
    CASE operation = "0"   -> 42   \* 0b0101010
      [] operation = "1"   -> 63   \* 0b0111111
      [] operation = "-1"  -> 58   \* 0b0111010
      [] operation = "D"   -> 12   \* 0b0001100
      [] operation = "A"   -> 48   \* 0b0110000
      [] operation = "M"   -> 112  \* 0b1110000
      [] operation = "!D"  -> 13   \* 0b0001101
      [] operation = "!A"  -> 49   \* 0b0110001
      [] operation = "!M"  -> 113  \* 0b1110001
      [] operation = "-D"  -> 15   \* 0b0001111
      [] operation = "-A"  -> 51   \* 0b0110011
      [] operation = "-M"  -> 115  \* 0b1110011
      [] operation = "D+1" -> 31   \* 0b0011111
      [] operation = "A+1" -> 55   \* 0b0110111
      [] operation = "M+1" -> 119  \* 0b1110111
      [] operation = "D-1" -> 14   \* 0b0001110
      [] operation = "A-1" -> 50   \* 0b0110010
      [] operation = "M-1" -> 114  \* 0b1110010
      [] operation = "D+A" -> 2    \* 0b0000010
      [] operation = "D+M" -> 66   \* 0b1000010
      [] operation = "D-A" -> 19   \* 0b0010011
      [] operation = "D-M" -> 83   \* 0b1010011
      [] operation = "A-D" -> 7    \* 0b0000111
      [] operation = "M-D" -> 71   \* 0b1000111
      [] operation = "D&A" -> 0    \* 0b0000000
      [] operation = "D&M" -> 64   \* 0b1000000
      [] operation = "D|A" -> 21   \* 0b0010101
      [] operation = "D|M" -> 85   \* 0b1010101

\* enum Dest, as u16.  "" is dest: None (unwrap_or(Dest::NULL)); "NULL" is
\* Some(Dest::NULL), which parse_destination gives for the text "0=..."
DestCode(d) ==
    CASE d = ""    -> 0 [] d = "M"  -> 1 [] d = "D"  -> 2 [] d = "MD"  -> 3
      [] d = "A"   -> 4 [] d = "AM" -> 5 [] d = "AD" -> 6 [] d = "AMD" -> 7
      [] d = "NULL" -> 0

\* enum Jump, as u16
JumpCode(j) ==
    CASE j = ""    -> 0 [] j = "JGT" -> 1 [] j = "JEQ" -> 2 [] j = "JGE" -> 3
      [] j = "JLT" -> 4 [] j = "JNE" -> 5 [] j = "JLE" -> 6 [] j = "JMP" -> 7

\* convert_c_statement with dest shifted by 2 instead of 3: the fields overlap,
\* so `|` is no longer a sum
convert_c_statement_shortshift(stmt) ==
    Or16(57344 + convert_operation(stmt.operation) * 64,
         Or16(DestCode(stmt.dest) * 4, JumpCode(stmt.jump)))

\* 0b1110_0000_0000_0000 | operation << 6 | dest << 3 | jump  (disjoint bit fields)
convert_c_statement(stmt) ==
    57344 + convert_operation(stmt.operation) * 64 + DestCode(stmt.dest) * 8
          + JumpCode(stmt.jump)

\* interpret_ast: one word per statement; -1 stands for a panic
interpret_ast(stmts, table) ==
    [i \in 1..Len(stmts) |->
        IF stmts[i].kind = "A" THEN convert_a_statement(stmts[i], table)
        ELSE IF stmts[i].kind = "C" THEN convert_c_statement(stmts[i])
        ELSE -1]

-----------------------------------------------------------------------------
(* parse_and_convert_file, src/assembler/src/main.rs, one action per pass   *)

\* longest statement list of an .asm input
MaxAsmLen == 4

AsmSymbols == {"LOOP", "i", "j", "KBD"}
AsmLabels  == {"LOOP", "END"}
AsmAlphabet ==
    {ASymbol(s) : s \in AsmSymbols} \cup {LabelStmt(l) : l \in AsmLabels}
        \cup {CStmt("D", "A", ""), EmptyStmt}

AsmInputs == UNION {[1..n -> AsmAlphabet] : n \in 0..MaxAsmLen}

AsmIdle ==
    /\ lines = <<>> /\ statements = <<>> /\ symbol_table = <<>>
    /\ binary = <<>> /\ asm_pc = "idle"

TrIdle ==
    /\ vm_files = <<>> /\ is_dir = FALSE /\ final_assembly = <<>>
    /\ tr_result = "none" /\ tr_pc = "idle"

CpuIdle ==
    /\ ram = <<>> /\ ram0 = <<>>
    /\ regA = 0 /\ regD = 0 /\ pc = 0

JackIdle ==
    /\ tokens = <<>> /\ expr = <<>> /\ output = <<>> /\ vm_stack = <<>>
    /\ jack_pc = "idle"

SymIdle ==
    /\ symbols = <<>> /\ frames = <<>>

CompIdle ==
    /\ class = <<>> /\ vm_code = <<>> /\ comp_pc = "idle"
    /\ vm_ip = 0 /\ vm_memory = <<>> /\ vm_trace = <<>> /\ comp_err = ""

StageIdle ==
    /\ stage = "none" /\ inputs = <<>> /\ options = <<>> /\ disk = <<>> /\ exit = "running"

AsmOnly == UNCHANGED <<trVars, cpuVars, jackVars, symVars, compVars, stageVars>>

IsNotEmpty(stmt) == stmt.kind # "Empty"

\* "Remove empty statements" and "Create a symbol table"
RemoveEmpty ==
    /\ asm_pc = "parsed"
    /\ statements' = SelectSeq(lines, IsNotEmpty)
    /\ symbol_table' = create_symbol_table
    /\ asm_pc' = "filtered"
    /\ UNCHANGED <<lines, binary>>
    /\ AsmOnly

FindLabels ==
    /\ asm_pc = "filtered"
    /\ symbol_table' = find_labels(statements, symbol_table)
    /\ asm_pc' = "labels_found"
    /\ UNCHANGED <<lines, statements, binary>>
    /\ AsmOnly

RemoveAllLabels ==
    /\ asm_pc = "labels_found"
    /\ statements' = remove_all_labels(statements)
    /\ asm_pc' = "labels_removed"
    /\ UNCHANGED <<lines, symbol_table, binary>>
    /\ AsmOnly

FindVariables ==
    /\ asm_pc = "labels_removed"
    /\ symbol_table' = find_variables(statements, symbol_table)
    /\ asm_pc' = "variables_found"
    /\ UNCHANGED <<lines, statements, binary>>
    /\ AsmOnly

InterpretAst ==
    /\ asm_pc = "variables_found"
    /\ binary' = interpret_ast(statements, symbol_table)
    /\ asm_pc' = "written"
    /\ UNCHANGED <<lines, statements, symbol_table>>
    /\ AsmOnly

InitAsm ==
    /\ lines \in AsmInputs
    /\ statements = <<>> /\ symbol_table = <<>>
    /\ binary = <<>> /\ asm_pc = "parsed"
    /\ TrIdle /\ CpuIdle /\ JackIdle /\ SymIdle /\ CompIdle /\ StageIdle

NextAsm ==
    \/ RemoveEmpty
    \/ FindLabels
    \/ RemoveAllLabels
    \/ FindVariables
    \/ InterpretAst

SpecAsm == InitAsm /\ [][NextAsm]_vars

-----------------------------------------------------------------------------
(* Properties of the assembler passes, stated over the source lines *)

IsInstruction(stmt) == stmt.kind \in {"A", "C"}

\* the number of A and C instructions before line i of the source
InstructionsBefore(i) == Cardinality({j \in 1..(i - 1) : IsInstruction(lines[j])})

Declarations(name) == {i \in 1..Len(lines) : lines[i] = LabelStmt(name)}

AfterLabels == asm_pc \in {"labels_found", "labels_removed", "variables_found", "written"}
AfterVariables == asm_pc \in {"variables_found", "written"}

\* C1: after pass 1 every label that is declared once is bound to the number
\* of A and C instructions that precede its declaration in the source, and
\* the output has one word per A or C instruction and none per label.
C1_LabelAddress ==
    /\ AfterLabels =>
         \A i \in 1..Len(lines) :
            (lines[i].kind = "Label" /\ Cardinality(Declarations(lines[i].symbol)) = 1)
               => /\ lines[i].symbol \in DOMAIN symbol_table
                  /\ symbol_table[lines[i].symbol] = InstructionsBefore(i)
    /\ asm_pc = "written" => Len(binary) = InstructionsBefore(Len(lines) + 1)

\* a label declared once, after another label, an empty line and an instruction
C1_Witness ==
    /\ asm_pc = "written"
    /\ \E i \in 1..Len(lines) :
          /\ lines[i].kind = "Label"
          /\ Cardinality(Declarations(lines[i].symbol)) = 1
          /\ InstructionsBefore(i) >= 1
          /\ \E j \in 1..(i - 1) : lines[j].kind = "Label"
          /\ \E j \in 1..(i - 1) : lines[j].kind = "Empty"

\* bound before pass 2: predefined, or declared as a label somewhere
PreBound(name) == name \in DOMAIN create_symbol_table \/ Declarations(name) # {}

NewSymbolAt(i) == lines[i].kind = "A" /\ lines[i].is_symbol /\ ~PreBound(lines[i].symbol)

\* the new symbols first met before line i
NewSymbolsBefore(i) == {lines[j].symbol : j \in {k \in 1..(i - 1) : NewSymbolAt(k)}}

FirstReference(name) ==
    CHOOSE i \in 1..Len(lines) :
        /\ lines[i] = ASymbol(name)
        /\ \A j \in 1..(i - 1) : lines[j] # ASymbol(name)

LastDeclaration(name) ==
    CHOOSE i \in Declarations(name) : \A j \in Declarations(name) : j <= i

\* C2: after pass 2 the k-th new symbol in first-encounter order (k from 0)
\* is bound to 16 + k, every reference to it is encoded with that address,
\* and the predefined symbols and the labels keep their pass-1 values.
C2_VariableAllocation ==
    /\ AfterVariables =>
         /\ \A i \in 1..Len(lines) :
               NewSymbolAt(i) =>
                  /\ lines[i].symbol \in DOMAIN symbol_table
                  /\ symbol_table[lines[i].symbol]
                        = 16 + Cardinality(NewSymbolsBefore(FirstReference(lines[i].symbol)))
         /\ \A n \in DOMAIN create_symbol_table :
               Declarations(n) = {} => symbol_table[n] = create_symbol_table[n]
         /\ \A n \in AsmLabels :
               Declarations(n) # {}
                  => symbol_table[n] = InstructionsBefore(LastDeclaration(n))
    /\ asm_pc = "written" =>
         \A i \in 1..Len(lines) :
            NewSymbolAt(i) =>
               binary[InstructionsBefore(i) + 1]
                  = 16 + Cardinality(NewSymbolsBefore(FirstReference(lines[i].symbol)))

\* two new symbols, the first referenced again later, and a predefined one
C2_Witness ==
    /\ asm_pc = "written"
    /\ \E i, j, k \in 1..Len(lines) :
          /\ i < j /\ j < k
          /\ NewSymbolAt(i) /\ NewSymbolAt(j)
          /\ lines[i].symbol # lines[j].symbol
          /\ lines[k] = lines[i]
          /\ symbol_table[lines[j].symbol] = 17
    /\ \E i \in 1..Len(lines) :
          lines[i].kind = "A" /\ lines[i].is_symbol /\ PreBound(lines[i].symbol)

-----------------------------------------------------------------------------
(* VM statements: src/vm-translator/src/ast.rs (Stmt.operation).  The Jack  *)
(* compiler emits them as text lines, one statement per line; a line and    *)
(* the statement the VM parser reads from it are written as one record.     *)

\* "push <segment> <address>"
VmPush(seg, k)   == [op |-> "push", segment |-> seg, address |-> k, name |-> "", num |-> 0,
                     text |-> "push " \o seg \o " " \o ToString(k)]
\* "pop <segment> <address>"
VmPop(seg, k)    == [op |-> "pop", segment |-> seg, address |-> k, name |-> "", num |-> 0,
                     text |-> "pop " \o seg \o " " \o ToString(k)]
\* "add" "sub" "neg" "eq" "gt" "lt" "and" "or" "not" "return"
VmOp(o)          == [op |-> o, segment |-> "", address |-> 0, name |-> "", num |-> 0,
                     text |-> o]
\* "label <name>"
VmLabel(n)       == [op |-> "label", segment |-> "", address |-> 0, name |-> n, num |-> 0,
                     text |-> "label " \o n]
\* "goto <name>"
VmGoto(n)        == [op |-> "goto", segment |-> "", address |-> 0, name |-> n, num |-> 0,
                     text |-> "goto " \o n]
\* "if-goto <name>"
VmIfGoto(n)      == [op |-> "if-goto", segment |-> "", address |-> 0, name |-> n, num |-> 0,
                     text |-> "if-goto " \o n]
\* "function <name> <num>"
VmFunction(n, k) == [op |-> "function", segment |-> "", address |-> 0, name |-> n, num |-> k,
                     text |-> "function " \o n \o " " \o ToString(k)]
\* "call <name> <num>"
VmCall(n, k)     == [op |-> "call", segment |-> "", address |-> 0, name |-> n, num |-> k,
                     text |-> "call " \o n \o " " \o ToString(k)]

-----------------------------------------------------------------------------
(* The Jack symbol table: src/compiler/src/symbol_table.rs                  *)

\* the largest element of a non-empty set of numbers
MaxOf(S) == CHOOSE n \in S : \A m \in S : m <= n

\* struct SymbolTableVariable
SymbolTableVariable(name, var_type, scope, index) ==
    [name |-> name, var_type |-> var_type, scope |-> scope, index |-> index]
\* Option::None of find_variable
NoVariable == SymbolTableVariable("", "", "None", -1)

\* SymbolTable::new
SymbolTable_new == [vars |-> <<>>, scopes |-> <<>>]

\* find_next_index that counts over the whole table instead of the current scope
find_next_index_wholetable(table, scope) ==
    LET indices == {table.vars[i].index : i \in {j \in 1..Len(table.vars) :
                                                    table.vars[j].scope = scope}}
    IN  IF indices = {} THEN 0 ELSE MaxOf(indices) + 1

\* the largest index of the kind in vars[scope_start_index..], plus one
find_next_index(table, scope) ==
    LET scope_start_index ==
            IF table.scopes = <<>> THEN 0 ELSE table.scopes[Len(table.scopes)]
        indices == {table.vars[i].index :
                       i \in {j \in (scope_start_index + 1)..Len(table.vars) :
                                 table.vars[j].scope = scope}}
    IN  IF indices = {} THEN 0 ELSE MaxOf(indices) + 1

add_field(table, var_name, var_type) ==
    [table EXCEPT !.vars = Append(@, SymbolTableVariable(var_name, var_type, "Field",
                                         find_next_index(table, "Field")))]
add_static(table, var_name, var_type) ==
    [table EXCEPT !.vars = Append(@, SymbolTableVariable(var_name, var_type, "Static",
                                         find_next_index(table, "Static")))]
add_argument(table, var_name, var_type) ==
    [table EXCEPT !.vars = Append(@, SymbolTableVariable(var_name, var_type, "Argument",
                                         find_next_index(table, "Argument")))]
add_local(table, var_name, var_type) ==
    [table EXCEPT !.vars = Append(@, SymbolTableVariable(var_name, var_type, "Local",
                                         find_next_index(table, "Local")))]

count_locals(table) ==
    Cardinality({i \in 1..Len(table.vars) : table.vars[i].scope = "Local"})
count_fields(table) ==
    Cardinality({i \in 1..Len(table.vars) : table.vars[i].scope = "Field"})

\* find_variable without .rev(): the oldest entry of the name
find_variable_norev(table, var_name) ==
    LET hits == {i \in 1..Len(table.vars) : table.vars[i].name = var_name}
    IN  IF hits = {} THEN NoVariable
        ELSE table.vars[CHOOSE i \in hits : \A j \in hits : i <= j]

\* vars.iter().rev().find(name): the newest entry of the name
find_variable(table, var_name) ==
    LET hits == {i \in 1..Len(table.vars) : table.vars[i].name = var_name}
    IN  IF hits = {} THEN NoVariable ELSE table.vars[MaxOf(hits)]

create_scope(table) == [table EXCEPT !.scopes = Append(@, Len(table.vars))]

\* scopes.pop(); with Some(index) the entries from index on are popped
pop_scope(table) ==
    IF table.scopes = <<>> THEN table
    ELSE [vars   |-> SubSeq(table.vars, 1, table.scopes[Len(table.scopes)]),
          scopes |-> SubSeq(table.scopes, 1, Len(table.scopes) - 1)]

-----------------------------------------------------------------------------
(* Jack expressions: src/compiler/src/parser/expression.rs and the          *)
(* BinaryExpr / Constant cases of compile_expression in compiler.rs.        *)

\* tokens of an expression's text
IntTok(n) == [kind |-> "int", val |-> n, op |-> ""]
OpTok(o)  == [kind |-> "op", val |-> 0, op |-> o]

\* Expr::Constant(Constant::Int(n))
IntConst(n) == [tag |-> "Int", val |-> n]
\* Expr::BinaryExpr { lhs, op, rhs }
BinaryExpr(l, o, r) == [tag |-> "BinaryExpr", lhs |-> l, op |-> o, rhs |-> r]

\* an IResult: Ok((rest, expr)) or Err
ParseOk(e, rest) == [ok |-> TRUE, expr |-> e, rest |-> rest]
ParseErr         == [ok |-> FALSE, expr |-> <<>>, rest |-> <<>>]

\* the characters parse_binary_operator accepts
BinaryOperators == {"<", ">", "+", "-", "*", "/", "&", "|", "="}

parse_binary_operator(toks) ==
    IF toks # <<>> /\ Head(toks).kind = "op" /\ Head(toks).op \in BinaryOperators
    THEN [ok |-> TRUE, op |-> Head(toks).op, rest |-> Tail(toks)]
    ELSE [ok |-> FALSE, op |-> "", rest |-> <<>>]

\* of the alternatives of parse_sub_expression, the integer constant
parse_constant(toks) ==
    IF toks # <<>> /\ Head(toks).kind = "int"
    THEN ParseOk(IntConst(Head(toks).val), Tail(toks))
    ELSE ParseErr

parse_sub_expression(toks) == parse_constant(toks)

RECURSIVE parse_expression(_)

\* lhs: one sub-expression; operator; rhs: a whole expression
parse_binary_operation(toks) ==
    LET lhs == parse_sub_expression(toks) IN
    IF ~lhs.ok THEN ParseErr
    ELSE LET operator == parse_binary_operator(lhs.rest) IN
         IF ~operator.ok THEN ParseErr
         ELSE LET rhs == parse_expression(operator.rest) IN
              IF ~rhs.ok THEN ParseErr
              ELSE ParseOk(BinaryExpr(lhs.expr, operator.op, rhs.expr), rhs.rest)

\* alt((parse_binary_operation, ..., parse_constant, ...))
parse_expression(toks) ==
    LET binary_operation == parse_binary_operation(toks) IN
    IF binary_operation.ok THEN binary_operation ELSE parse_constant(toks)

\* the opcode line of a binary operator
BinaryOpcode(op) ==
    CASE op = "+" -> VmOp("add")
      [] op = "-" -> VmOp("sub")
      [] op = "*" -> VmCall("Math.multiply", 2)
      [] op = "/" -> VmCall("Math.divide", 2)
      [] op = "&" -> VmOp("and")
      [] op = "|" -> VmOp("or")
      [] op = "<" -> VmOp("lt")
      [] op = ">" -> VmOp("gt")
      [] op = "=" -> VmOp("eq")

\* Expr::Constant(Constant::Keyword(k)), k one of "true" "false" "null" "this"
KeywordConst(k) == [tag |-> "Keyword", keyword |-> k]
\* Expr::Constant(Constant::String(s))
StringConst(str) == [tag |-> "String", val |-> str]
\* VariableRef::new(name) and VariableRef::new_with_index(name, index)
VariableRef(name) == [name |-> name, has_index |-> FALSE, index |-> <<>>]
VariableRefIndexed(name, index) == [name |-> name, has_index |-> TRUE, index |-> index]
\* Expr::VarRef(var)
VarRef(var) == [tag |-> "VarRef", var |-> var]
\* Expr::UnaryExpr(op, expr), op one of "-" "~"
UnaryExpr(o, e) == [tag |-> "UnaryExpr", op |-> o, expr |-> e]
\* Expr::BracketedExpr(expr)
BracketedExpr(e) == [tag |-> "BracketedExpr", expr |-> e]
\* SubroutineCall { target_name: None, subroutine_name, parameters }
SubroutineCall(name, parameters) ==
    [has_target |-> FALSE, target_name |-> "", subroutine_name |-> name,
     parameters |-> parameters]
\* SubroutineCall { target_name: Some(target), subroutine_name, parameters }
TargetCall(target, name, parameters) ==
    [has_target |-> TRUE, target_name |-> target, subroutine_name |-> name,
     parameters |-> parameters]
\* Expr::Call(call)
CallExpr(call) == [tag |-> "Call", call |-> call]

\* SubroutineCall::name_as_string: "target.name", or "name" without a target
name_as_string(call) ==
    IF call.has_target THEN call.target_name \o "." \o call.subroutine_name
    ELSE call.subroutine_name

\* struct CompilationContext and CompilationContext::new
CompilationContext_new(class_name) ==
    [symbol_table |-> SymbolTable_new, class_name |-> class_name,
     subroutine_name |-> "", while_count |-> 0, if_count |-> 0]

\* Result<(), CompilationError> with the lines pushed to output; a todo!()
\* that is reached panics
Compiled(out) == [ok |-> TRUE, out |-> out, err |-> ""]
MissingVariable(var_name) ==
    [ok |-> FALSE, out |-> <<>>, err |-> "MissingVariable " \o var_name]
Panic == [ok |-> FALSE, out |-> <<>>, err |-> "panic: not yet implemented"]

\* `let x = value; ...`: the value is computed once and the rest uses it
With(value, Rest(_)) == CHOOSE result \in {Rest(x) : x \in {value}} : TRUE

\* `first?; second`: the lines of both, or the first failure
AndThen(first, second) ==
    With(first, LAMBDA a :
       IF ~a.ok THEN a
       ELSE With(second, LAMBDA b :
               IF ~b.ok THEN b ELSE Compiled(a.out \o b.out)))

\* the match on variable.scope() of compile_statement and compile_expression
ScopeSegment(scope) ==
    CASE scope = "Field"    -> "this"
      [] scope = "Static"   -> "static"
      [] scope = "Argument" -> "argument"
      [] scope = "Local"    -> "local"

RECURSIVE compile_expression(_, _)
RECURSIVE compile_parameters(_, _)

\* for parameter in call.get_parameters() { compile_expression(...)? }
compile_parameters(parameters, context) ==
    IF parameters = <<>> THEN Compiled(<<>>)
    ELSE AndThen(compile_expression(Head(parameters), context),
                 compile_parameters(Tail(parameters), context))

compile_expression(e, context) ==
    CASE e.tag = "Int" -> Compiled(<<VmPush("constant", e.val)>>)
      [] e.tag = "String" -> Panic
      [] e.tag = "Keyword" ->
            (CASE e.keyword = "true"  -> Compiled(<<VmPush("constant", 1), VmOp("neg")>>)
               [] e.keyword = "false" -> Compiled(<<VmPush("constant", 0)>>)
               [] e.keyword = "null"  -> Compiled(<<VmPush("constant", 0)>>)
               [] e.keyword = "this"  -> Panic)
      [] e.tag = "VarRef" ->
            IF e.var.has_index THEN Panic
            ELSE LET variable == find_variable(context.symbol_table, e.var.name) IN
                 IF variable = NoVariable THEN MissingVariable(e.var.name)
                 ELSE Compiled(<<VmPush(ScopeSegment(variable.scope), variable.index)>>)
      [] e.tag = "UnaryExpr" ->
            AndThen(compile_expression(e.expr, context),
                    Compiled(<<VmOp(IF e.op = "-" THEN "neg" ELSE "not")>>))
      [] e.tag = "BinaryExpr" ->
            AndThen(compile_expression(e.lhs, context),
                    AndThen(compile_expression(e.rhs, context),
                            Compiled(<<BinaryOpcode(e.op)>>)))
      [] e.tag = "BracketedExpr" -> compile_expression(e.expr, context)
      [] e.tag = "Call" ->
            AndThen(compile_parameters(e.call.parameters, context),
                    Compiled(<<VmCall(name_as_string(e.call),
                                      Len(e.call.parameters))>>))

(* The VM's meaning of the emitted lines: each operator pops y, then x, and *)
(* pushes x op y; true is -1.                                               *)
VmBinary(line, x, y) ==
    CASE line = VmOp("add") -> U16(x + y)
      [] line = VmOp("sub") -> U16(x + WordMod - y)
      [] line = VmOp("and") -> And16(x, y)
      [] line = VmOp("or")  -> Or16(x, y)
      [] line = VmOp("lt")  -> IF Signed(x) < Signed(y) THEN WordMod - 1 ELSE 0
      [] line = VmOp("gt")  -> IF Signed(x) > Signed(y) THEN WordMod - 1 ELSE 0
      [] line = VmOp("eq")  -> IF x = y THEN WordMod - 1 ELSE 0
      [] line = VmCall("Math.multiply", 2) -> U16(Signed(x) * Signed(y))
      [] line = VmCall("Math.divide", 2) /\ y # 0 /\ Signed(x) >= 0 /\ Signed(y) > 0
            -> x \div y

VmExec(line, stack) ==
    IF line.op = "push" THEN Append(stack, line.address)
    ELSE LET n == Len(stack) IN
         Append(SubSeq(stack, 1, n - 2), VmBinary(line, stack[n - 1], stack[n]))

\* most operands in an expression of the inputs
MaxOperands == 3

JackOperands  == {1, 2, 5}
JackOperators == {"+", "-", "*", "<", "&"}

\* operand (operator operand)*
RECURSIVE Chains(_)
Chains(n) ==
    IF n = 1 THEN {<<IntTok(v)>> : v \in JackOperands}
    ELSE {c \o <<OpTok(o), IntTok(v)>> : c \in Chains(n - 1), o \in JackOperators,
                                          v \in JackOperands}

JackInputs == UNION {Chains(n) : n \in 1..MaxOperands}

JackOnly == UNCHANGED <<asmVars, trVars, cpuVars, symVars, compVars, stageVars>>

ParseExpression ==
    /\ jack_pc = "source"
    /\ parse_expression(tokens).ok
    /\ expr' = parse_expression(tokens).expr
    /\ jack_pc' = "parsed"
    /\ UNCHANGED <<tokens, output, vm_stack>>
    /\ JackOnly

CompileExpression ==
    /\ jack_pc = "parsed"
    /\ compile_expression(expr, CompilationContext_new("Main")).ok
    /\ output' = compile_expression(expr, CompilationContext_new("Main")).out
    /\ jack_pc' = "compiled"
    /\ UNCHANGED <<tokens, expr, vm_stack>>
    /\ JackOnly

\* the VM executes the first remaining line of the emitted code
RunLine ==
    /\ jack_pc = "compiled"
    /\ output # <<>>
    /\ vm_stack' = VmExec(Head(output), vm_stack)
    /\ output' = Tail(output)
    /\ UNCHANGED <<tokens, expr, jack_pc>>
    /\ JackOnly

InitJack ==
    /\ tokens \in JackInputs
    /\ expr = <<>> /\ output = <<>> /\ vm_stack = <<>> /\ jack_pc = "source"
    /\ AsmIdle /\ TrIdle /\ CpuIdle /\ SymIdle /\ CompIdle /\ StageIdle

NextJack ==
    \/ ParseExpression
    \/ CompileExpression
    \/ RunLine

SpecJack == InitJack /\ [][NextJack]_vars

\* the value of a chain with its operators applied left to right
JackApply(op, x, y) == VmBinary(BinaryOpcode(op), x, y)

RECURSIVE LeftToRight(_)
LeftToRight(toks) ==
    IF Len(toks) = 1 THEN toks[1].val
    ELSE LET n == Len(toks) IN
         JackApply(toks[n - 1].op, LeftToRight(SubSeq(toks, 1, n - 2)), toks[n].val)

\* C4: the code emitted for an unbracketed chain a op1 b op2 c ... leaves
\* the value of the chain evaluated left to right, ((a op1 b) op2 c) ...,
\* as the only value on the stack.
C4_LeftToRight ==
    (jack_pc = "compiled" /\ output = <<>>) => vm_stack = <<LeftToRight(tokens)>>

-----------------------------------------------------------------------------
(* VM translator: src/vm-translator/src/translate_ast.  An assembly line is *)
(* written as the Stmt the assembler parses from it.                        *)

\* "@name"
At(name) == ASymbol(name)
\* "@n"
AtN(n) == AValue(n)
\* "dest=operation"
C(d, o) == CStmt(d, o, "")
\* "operation;jump"
J(o, j) == CStmt("", o, j)
\* "(name)"
L(name) == LabelStmt(name)
\* "// text": the assembler reads a comment line as no statement
CommentLine(text) == [kind |-> "Comment", is_symbol |-> FALSE, symbol |-> "// " \o text,
                      value |-> 0, dest |-> "", operation |-> "", jump |-> ""]

\* Result<Vec<String>, String>
Ok(asm)  == [ok |-> TRUE, asm |-> asm, err |-> ""]
Err(msg) == [ok |-> FALSE, asm |-> <<>>, err |-> msg]

\* translate_push.rs: address_to_temp, Ok(name) or Err
push_address_to_temp(address) ==
    CASE address = 0 -> Ok(<<"R5">>)  [] address = 1 -> Ok(<<"R6">>)
      [] address = 2 -> Ok(<<"R7">>)  [] address = 3 -> Ok(<<"R8">>)
      [] address = 4 -> Ok(<<"R9">>)  [] address = 5 -> Ok(<<"R10">>)
      [] address = 6 -> Ok(<<"R11">>) [] address = 7 -> Ok(<<"R12">>)
      [] OTHER -> Err("Address " \o ToString(address) \o " outside scope of temp registers")

\* the lines that fetch the value into D
translate_address_fetch(address, file_name) ==
    CASE address.segment = "constant" ->
            Ok(<<AtN(address.address), C("D", "A")>>)
      [] address.segment = "local" ->
            Ok(<<AtN(address.address), C("D", "A"), At("LCL"), C("A", "D+M"), C("D", "M")>>)
      [] address.segment = "argument" ->
            Ok(<<AtN(address.address), C("D", "A"), At("ARG"), C("A", "D+M"), C("D", "M")>>)
      [] address.segment = "this" ->
            Ok(<<AtN(address.address), C("D", "A"), At("THIS"), C("A", "D+M"), C("D", "M")>>)
      [] address.segment = "that" ->
            Ok(<<AtN(address.address), C("D", "A"), At("THAT"), C("A", "D+M"), C("D", "M")>>)
      [] address.segment = "static" ->
            Ok(<<At(file_name \o "." \o ToString(address.address)), C("D", "M")>>)
      [] address.segment = "temp" ->
            LET register == push_address_to_temp(address.address) IN
            IF register.ok THEN Ok(<<At(register.asm[1]), C("D", "M")>>)
            ELSE Err(register.err)
      [] address.segment = "pointer" ->
            CASE address.address = 0 -> Ok(<<At("THIS"), C("D", "M")>>)
              [] address.address = 1 -> Ok(<<At("THAT"), C("D", "M")>>)
              [] OTHER -> Err("Out of range pointer address " \o ToString(address.address))

translate_push(address, file_name) ==
    LET fetch == translate_address_fetch(address, file_name) IN
    IF ~fetch.ok THEN Err(fetch.err)
    ELSE Ok(fetch.asm \o <<At("SP"), C("A", "M"), C("M", "D"), At("SP"), C("M", "M+1")>>)

\* translate_pop.rs: address_to_temp, Ok(line) or Err
pop_address_to_temp(address) ==
    CASE address = 0 -> Ok(<<At("R5")>>)  [] address = 1 -> Ok(<<At("R6")>>)
      [] address = 2 -> Ok(<<At("R7")>>)  [] address = 3 -> Ok(<<At("R8")>>)
      [] address = 4 -> Ok(<<At("R9")>>)  [] address = 5 -> Ok(<<At("R10")>>)
      [] address = 6 -> Ok(<<At("R11")>>) [] address = 7 -> Ok(<<At("R12")>>)
      [] OTHER -> Err("Address " \o ToString(address) \o " outside scope of temp registers")

\* a segment_to_var that takes every pointer index above 0 for THAT
segment_to_var_anypointer(address, file_name) ==
    CASE address.segment = "argument" -> Ok(<<At("ARG")>>)
      [] address.segment = "local"    -> Ok(<<At("LCL")>>)
      [] address.segment = "this"     -> Ok(<<At("THIS")>>)
      [] address.segment = "that"     -> Ok(<<At("THAT")>>)
      [] address.segment = "temp"     -> pop_address_to_temp(address.address)
      [] address.segment = "static"   ->
            Ok(<<At(file_name \o "." \o ToString(address.address))>>)
      [] address.segment = "pointer"  ->
            IF address.address = 0 THEN Ok(<<At("THIS")>>) ELSE Ok(<<At("THAT")>>)
      [] OTHER -> Err("Unable to convert memory segment to address")

segment_to_var(address, file_name) ==
    CASE address.segment = "argument" -> Ok(<<At("ARG")>>)
      [] address.segment = "local"    -> Ok(<<At("LCL")>>)
      [] address.segment = "this"     -> Ok(<<At("THIS")>>)
      [] address.segment = "that"     -> Ok(<<At("THAT")>>)
      [] address.segment = "temp"     -> pop_address_to_temp(address.address)
      [] address.segment = "static"   ->
            Ok(<<At(file_name \o "." \o ToString(address.address))>>)
      [] address.segment = "pointer"  ->
            CASE address.address = 0 -> Ok(<<At("THIS")>>)
              [] address.address = 1 -> Ok(<<At("THAT")>>)
              [] OTHER -> Err("Invalid pop pointer address " \o ToString(address.address))
      [] OTHER -> Err("Unable to convert memory segment to address")

\* a translate_pop that keeps the target address in the cell of the popped value
translate_pop_clobber(address, file_name) ==
    LET var == segment_to_var(address, file_name) IN
    IF address.segment \in {"argument", "local", "this", "that"}
    THEN Ok(<<AtN(address.address), C("D", "A")>> \o var.asm
            \o <<C("D", "D+M"), At("SP"), C("M", "M-1"), C("A", "M"), C("M", "D"),
                 C("A", "A-1"), C("D", "M"), C("A", "A+1"), C("A", "M"), C("M", "D")>>)
    ELSE IF address.segment = "constant"
    THEN Err("Invalid pop statement: pop constant " \o ToString(address.address))
    ELSE IF ~var.ok THEN Err(var.err)
    ELSE Ok(<<At("SP"), C("M", "M-1"), C("A", "M"), C("D", "M")>> \o var.asm
            \o <<C("M", "D")>>)

translate_pop(address, file_name) ==
    CASE address.segment \in {"argument", "local", "this", "that"} ->
            LET var == segment_to_var(address, file_name) IN
            IF ~var.ok THEN Err(var.err)
            ELSE Ok(<<AtN(address.address), C("D", "A")>> \o var.asm
                    \o <<C("D", "D+M"), At("SP"), C("M", "M-1"), C("A", "M+1"),
                         C("M", "D"), C("A", "A-1"), C("D", "M"), C("A", "A+1"),
                         C("A", "M"), C("M", "D")>>)
      [] address.segment \in {"pointer", "static", "temp"} ->
            LET var == segment_to_var(address, file_name) IN
            IF ~var.ok THEN Err(var.err)
            ELSE Ok(<<At("SP"), C("M", "M-1"), C("A", "M"), C("D", "M")>> \o var.asm
                    \o <<C("M", "D")>>)
      [] address.segment = "constant" ->
            Err("Invalid pop statement: pop constant " \o ToString(address.address))

translate_add == <<At("SP"), C("AM", "M-1"), C("D", "M"), C("A", "A-1"), C("M", "D+M")>>

\* a translate_sub with the operands the wrong way round
translate_sub_swapped ==
    <<At("SP"), C("AM", "M-1"), C("D", "M"), C("A", "A-1"), C("M", "D-M")>>

translate_sub == <<At("SP"), C("AM", "M-1"), C("D", "M"), C("A", "A-1"), C("M", "M-D")>>

translate_neg == <<At("SP"), C("A", "M-1"), C("M", "-M")>>

\* the comparisons return the lines and the counter as the &mut leaves it

\* a translate_eq that leaves the difference minus one as the false value
translate_eq_nofalse(eq_counter, file_name) ==
    [asm |-> <<At("SP"), C("AM", "M-1"), C("D", "M"), C("A", "A-1"), C("MD", "D-M"),
               C("M", "M-1"),
               At(file_name \o ".EQ_END_" \o ToString(eq_counter)),
               J("D", "JEQ"),
               At("SP"), C("A", "M-1"),
               L(file_name \o ".EQ_END_" \o ToString(eq_counter))>>,
     counter |-> eq_counter + 1]

translate_eq(eq_counter, file_name) ==
    [asm |-> <<At("SP"), C("AM", "M-1"), C("D", "M"), C("A", "A-1"), C("MD", "D-M"),
               C("M", "M-1"),
               At(file_name \o ".EQ_END_" \o ToString(eq_counter)),
               J("D", "JEQ"),
               At("SP"), C("A", "M-1"), C("M", "0"),
               L(file_name \o ".EQ_END_" \o ToString(eq_counter))>>,
     counter |-> eq_counter + 1]

\* a translate_gt that does not advance its counter
translate_gt_samecounter(gt_counter, file_name) ==
    [asm |-> <<At("SP"), C("AM", "M-1"), C("D", "M"), C("A", "A-1"), C("D", "M-D"),
               C("M", "-1"),
               At(file_name \o ".GT_END_" \o ToString(gt_counter)),
               J("D", "JGT"),
               At("SP"), C("A", "M-1"), C("M", "0"),
               L(file_name \o ".GT_END_" \o ToString(gt_counter))>>,
     counter |-> gt_counter]

translate_gt(gt_counter, file_name) ==
    [asm |-> <<At("SP"), C("AM", "M-1"), C("D", "M"), C("A", "A-1"), C("D", "M-D"),
               C("M", "-1"),
               At(file_name \o ".GT_END_" \o ToString(gt_counter)),
               J("D", "JGT"),
               At("SP"), C("A", "M-1"), C("M", "0"),
               L(file_name \o ".GT_END_" \o ToString(gt_counter))>>,
     counter |-> gt_counter + 1]

translate_lt(lt_counter, file_name) ==
    [asm |-> <<At("SP"), C("AM", "M-1"), C("D", "M"), C("A", "A-1"), C("D", "M-D"),
               C("M", "-1"),
               At(file_name \o ".LT_END_" \o ToString(lt_counter)),
               J("D", "JLT"),
               At("SP"), C("A", "M-1"), C("M", "0"),
               L(file_name \o ".LT_END_" \o ToString(lt_counter))>>,
     counter |-> lt_counter + 1]

translate_and == <<At("SP"), C("AM", "M-1"), C("D", "M"), C("A", "A-1"), C("M", "D&M")>>

translate_or == <<At("SP"), C("AM", "M-1"), C("D", "M"), C("A", "A-1"), C("M", "D|M")>>

translate_not == <<At("SP"), C("A", "M-1"), C("M", "!M")>>

translate_label(label) == <<L(label)>>

translate_if_goto(label) ==
    <<At("SP"), C("AM", "M-1"), C("D", "M"), At(label), J("D", "JNE")>>

translate_goto(label) == <<At(label), J("0", "JMP")>>

\* for _ in 0..function.num { "M=0"; "A=A+1" }
RECURSIVE ZeroLocals(_)
ZeroLocals(n) == IF n = 0 THEN <<>> ELSE <<C("M", "0"), C("A", "A+1")>> \o ZeroLocals(n - 1)

translate_function(function) ==
    <<L(function.name), At("LCL"), C("A", "M")>>
        \o ZeroLocals(function.num)
        \o <<AtN(function.num), C("D", "A"), At("SP"), C("M", "D+M")>>

\* a translate_return that reads the return address after *ARG = pop()
translate_return_lateaddress(return_counter, file_name) ==
    [asm |->
        <<At("LCL"), C("D", "M"), At("R13"), C("M", "D"),
          At("SP"), C("A", "M-1"), C("D", "M"), At("ARG"), C("A", "M"), C("M", "D"),
          AtN(5), C("D", "A"), At("R13"), C("A", "M-D"), C("D", "M"), At("R15"), C("M", "D"),
          At("ARG"), C("D", "M+1"), At("SP"), C("M", "D"),
          At("THAT"), C("D", "A"), At("R14"), C("M", "D"),
          L(file_name \o ".RETURN_DMA_START_" \o ToString(return_counter)),
          At("R13"), C("AM", "M-1"), C("D", "M"), At("R14"), C("A", "M"), C("M", "D"),
          At("R14"), C("M", "M-1"),
          C("D", "M"),
          At(file_name \o ".RETURN_DMA_START_" \o ToString(return_counter)),
          J("D", "JGT"),
          At("R15"), C("A", "M"), J("0", "JMP")>>,
     counter |-> return_counter + 1]

\* a translate_return whose loop goes round while R14 >= 0
translate_return_jge(return_counter, file_name) ==
    [asm |->
        <<At("LCL"), C("D", "M"), At("R13"), C("M", "D"),
          AtN(5), C("D", "A"), At("R13"), C("A", "M-D"), C("D", "M"), At("R15"), C("M", "D"),
          At("SP"), C("A", "M-1"), C("D", "M"), At("ARG"), C("A", "M"), C("M", "D"),
          At("ARG"), C("D", "M+1"), At("SP"), C("M", "D"),
          At("THAT"), C("D", "A"), At("R14"), C("M", "D"),
          L(file_name \o ".RETURN_DMA_START_" \o ToString(return_counter)),
          At("R13"), C("AM", "M-1"), C("D", "M"), At("R14"), C("A", "M"), C("M", "D"),
          At("R14"), C("M", "M-1"),
          C("D", "M"),
          At(file_name \o ".RETURN_DMA_START_" \o ToString(return_counter)),
          J("D", "JGE"),
          At("R15"), C("A", "M"), J("0", "JMP")>>,
     counter |-> return_counter + 1]
translate_return(return_counter, file_name) ==
    [asm |->
        \* endFrame = LCL
        <<At("LCL"), C("D", "M"), At("R13"), C("M", "D"),
        \* retAddress = *(endFrame - 5)
          AtN(5), C("D", "A"), At("R13"), C("A", "M-D"), C("D", "M"), At("R15"), C("M", "D"),
        \* *ARG = pop()
          At("SP"), C("A", "M-1"), C("D", "M"), At("ARG"), C("A", "M"), C("M", "D"),
        \* SP = ARG + 1
          At("ARG"), C("D", "M+1"), At("SP"), C("M", "D"),
        \* destination = THAT
          At("THAT"), C("D", "A"), At("R14"), C("M", "D"),
        \* THAT, THIS, ARG, LCL = *(endFrame - 1), ..., *(endFrame - 4)
          L(file_name \o ".RETURN_DMA_START_" \o ToString(return_counter)),
          At("R13"), C("AM", "M-1"), C("D", "M"), At("R14"), C("A", "M"), C("M", "D"),
          At("R14"), C("M", "M-1"),
        \* if R14 > 0 goto RETURN_DMA_START
          C("D", "M"),
          At(file_name \o ".RETURN_DMA_START_" \o ToString(return_counter)),
          J("D", "JGT"),
        \* goto retAddress
          At("R15"), C("A", "M"), J("0", "JMP")>>,
     counter |-> return_counter + 1]

\* "@X", "D=M", "@SP", "M=M+1", "A=M-1", "M=D"
PushPointer(name) ==
    <<At(name), C("D", "M"), At("SP"), C("M", "M+1"), C("A", "M-1"), C("M", "D")>>

translate_call(function, call_count, file_name) ==
    [asm |->
        \* push returnAddress
        <<At(file_name \o ".RETURN_ADDRESS_CALL_" \o ToString(call_count)), C("D", "A"),
          At("SP"), C("M", "M+1"), C("A", "M-1"), C("M", "D")>>
        \o PushPointer("LCL") \o PushPointer("ARG")
        \o PushPointer("THIS") \o PushPointer("THAT")
        \* ARG = SP-5-nArgs
        \o <<At("SP"), C("D", "M"), AtN(5 + function.num), C("D", "D-A"),
             At("ARG"), C("M", "D"),
        \* LCL = SP
             At("SP"), C("D", "M"), At("LCL"), C("M", "D"),
        \* goto functionName
             At(function.name), J("0", "JMP"),
        \* (return Address)
             L(file_name \o ".RETURN_ADDRESS_CALL_" \o ToString(call_count))>>,
     counter |-> call_count + 1]

\* the counters of translate_ast
Counters0 == [eq |-> 0, gt |-> 0, lt |-> 0, return |-> 0, call |-> 0]

\* one iteration of the loop of translate_ast: the lines of stmt (or the
\* error) and the counters after it
translate_stmt(stmt, c, file_name) ==
    CASE stmt.op = "push" ->
            [res |-> translate_push(stmt, file_name), c |-> c]
      [] stmt.op = "pop" ->
            [res |-> translate_pop(stmt, file_name), c |-> c]
      [] stmt.op = "add" -> [res |-> Ok(translate_add), c |-> c]
      [] stmt.op = "sub" -> [res |-> Ok(translate_sub), c |-> c]
      [] stmt.op = "neg" -> [res |-> Ok(translate_neg), c |-> c]
      [] stmt.op = "eq" ->
            LET t == translate_eq(c.eq, file_name) IN
            [res |-> Ok(t.asm), c |-> [c EXCEPT !.eq = t.counter]]
      [] stmt.op = "gt" ->
            LET t == translate_gt(c.gt, file_name) IN
            [res |-> Ok(t.asm), c |-> [c EXCEPT !.gt = t.counter]]
      [] stmt.op = "lt" ->
            LET t == translate_lt(c.lt, file_name) IN
            [res |-> Ok(t.asm), c |-> [c EXCEPT !.lt = t.counter]]
      [] stmt.op = "and" -> [res |-> Ok(translate_and), c |-> c]
      [] stmt.op = "or"  -> [res |-> Ok(translate_or), c |-> c]
      [] stmt.op = "not" -> [res |-> Ok(translate_not), c |-> c]
      [] stmt.op = "label"   -> [res |-> Ok(translate_label(stmt.name)), c |-> c]
      [] stmt.op = "if-goto" -> [res |-> Ok(translate_if_goto(stmt.name)), c |-> c]
      [] stmt.op = "goto"    -> [res |-> Ok(translate_goto(stmt.name)), c |-> c]
      [] stmt.op = "function" -> [res |-> Ok(translate_function(stmt)), c |-> c]
      [] stmt.op = "return" ->
            LET t == translate_return(c.return, file_name) IN
            [res |-> Ok(t.asm), c |-> [c EXCEPT !.return = t.counter]]
      [] stmt.op = "call" ->
            LET t == translate_call(stmt, c.call, file_name) IN
            [res |-> Ok(t.asm), c |-> [c EXCEPT !.call = t.counter]]

RECURSIVE translate_ast_loop(_, _, _, _)
translate_ast_loop(ast, file_name, out, c) ==
    IF ast = <<>> THEN Ok(out)
    ELSE LET t == translate_stmt(Head(ast), c, file_name) IN
         IF ~t.res.ok THEN Err(t.res.err)
         ELSE translate_ast_loop(Tail(ast), file_name,
                  out \o <<CommentLine(Head(ast).text)>> \o t.res.asm, t.c)

translate_ast(ast, file_name) == translate_ast_loop(ast, file_name, <<>>, Counters0)

-----------------------------------------------------------------------------
(* The driver of the translator, src/vm-translator/src/main.rs, and the     *)
(* Hack machine that runs the words the assembler makes of its output.      *)

\* "@261", "D=A", "@SP", "M=D", "@Sys.init", "0;JMP"
Bootstrap ==
    <<AtN(261), C("D", "A"), At("SP"), C("M", "D"), At("Sys.init"), J("0", "JMP")>>

\* the loop over vm_files: Ok(final_assembly) or the first TranslationError
RECURSIVE translate_files(_, _)
translate_files(files, out) ==
    IF files = <<>> THEN Ok(out)
    ELSE LET asm == translate_ast(Head(files).ast, Head(files).name) IN
         IF ~asm.ok THEN Err(asm.err)
         ELSE translate_files(Tail(files), out \o asm.asm)

\* parse_hack: a comment line is read as Stmt::Empty
parse_hack(asm) ==
    [i \in DOMAIN asm |-> IF asm[i].kind = "Comment" THEN EmptyStmt ELSE asm[i]]

\* the fields of a word: the operation, destination and jump whose codes it holds
Operations ==
    {"0", "1", "-1", "D", "A", "M", "!D", "!A", "!M", "-D", "-A", "-M",
     "D+1", "A+1", "M+1", "D-1", "A-1", "M-1", "D+A", "D+M", "D-A", "D-M",
     "A-D", "M-D", "D&A", "D&M", "D|A", "D|M"}
OperationOf(word) ==
    CHOOSE o \in Operations : convert_operation(o) = (word \div 64) % 128
DestOf(word) ==
    CHOOSE d \in {"", "M", "D", "MD", "A", "AM", "AD", "AMD"} :
        DestCode(d) = (word \div 8) % 8
JumpOf(word) ==
    CHOOSE j \in {"", "JGT", "JEQ", "JGE", "JLT", "JNE", "JLE", "JMP"} :
        JumpCode(j) = word % 8

\* the computation a C-statement names, on 16-bit words
Comp(operation, a, d, m) ==
    CASE operation = "0"   -> 0
      [] operation = "1"   -> 1
      [] operation = "-1"  -> WordMod - 1
      [] operation = "D"   -> d
      [] operation = "A"   -> a
      [] operation = "M"   -> m
      [] operation = "!D"  -> Not16(d)
      [] operation = "!A"  -> Not16(a)
      [] operation = "!M"  -> Not16(m)
      [] operation = "-D"  -> Neg16(d)
      [] operation = "-A"  -> Neg16(a)
      [] operation = "-M"  -> Neg16(m)
      [] operation = "D+1" -> U16(d + 1)
      [] operation = "A+1" -> U16(a + 1)
      [] operation = "M+1" -> U16(m + 1)
      [] operation = "D-1" -> U16(d + WordMod - 1)
      [] operation = "A-1" -> U16(a + WordMod - 1)
      [] operation = "M-1" -> U16(m + WordMod - 1)
      [] operation = "D+A" -> U16(d + a)
      [] operation = "D+M" -> U16(d + m)
      [] operation = "D-A" -> U16(d + WordMod - a)
      [] operation = "D-M" -> U16(d + WordMod - m)
      [] operation = "A-D" -> U16(a + WordMod - d)
      [] operation = "M-D" -> U16(m + WordMod - d)
      [] operation = "D&A" -> And16(d, a)
      [] operation = "D&M" -> And16(d, m)
      [] operation = "D|A" -> Or16(d, a)
      [] operation = "D|M" -> Or16(d, m)

\* the operations with the M bit set
ReadsM(operation) ==
    operation \in {"M", "!M", "-M", "M+1", "M-1", "D+M", "D-M", "M-D", "D&M", "D|M"}

\* the destinations a Dest names
WritesA(d) == d \in {"A", "AM", "AD", "AMD"}
WritesD(d) == d \in {"D", "MD", "AD", "AMD"}
WritesM(d) == d \in {"M", "MD", "AM", "AMD"}

\* the condition a Jump names, on the computed word read as a signed number
JumpTaken(j, w) ==
    CASE j = ""    -> FALSE
      [] j = "JGT" -> Signed(w) > 0
      [] j = "JEQ" -> Signed(w) = 0
      [] j = "JGE" -> Signed(w) >= 0
      [] j = "JLT" -> Signed(w) < 0
      [] j = "JNE" -> Signed(w) # 0
      [] j = "JLE" -> Signed(w) <= 0
      [] j = "JMP" -> TRUE

VmOnly == UNCHANGED <<asmVars, jackVars, symVars, compVars, stageVars>>

\* parse_and_convert_vm on a file: translate_ast with the file's name, then
\* fs::write of the assembly; nothing is written on a TranslationError
TranslateFile ==
    /\ tr_pc = "parsed" /\ ~is_dir
    /\ LET asm == translate_ast(vm_files[1].ast, vm_files[1].name) IN
       /\ final_assembly' = asm.asm
       /\ tr_result' = IF asm.ok THEN "Ok" ELSE "TranslationError"
    /\ tr_pc' = "done"
    /\ UNCHANGED <<vm_files, is_dir, cpuVars>>
    /\ VmOnly

\* parse_and_convert_vm on a directory: the bootstrap, then every file's
\* assembly under that file's name
TranslateDirectory ==
    /\ tr_pc = "parsed" /\ is_dir
    /\ LET asm == translate_files(vm_files, Bootstrap) IN
       /\ final_assembly' = asm.asm
       /\ tr_result' = IF asm.ok THEN "Ok" ELSE "TranslationError"
    /\ tr_pc' = "done"
    /\ UNCHANGED <<vm_files, is_dir, cpuVars>>
    /\ VmOnly

\* parse_a_instruction reads the number of `@<number>` with nom's u16, which
\* fails on a number above 65535; the line is then no statement at all
IsUnparsable(stmt) == stmt.kind = "A" /\ ~stmt.is_symbol /\ stmt.value >= WordMod

\* the assembler reads the written file: Ok(lines) or ErrorType::ParsingError
ReadAssembly ==
    /\ tr_pc = "done" /\ tr_result = "Ok" /\ asm_pc = "idle"
    /\ IF \E i \in DOMAIN final_assembly : IsUnparsable(final_assembly[i])
       THEN lines' = lines /\ asm_pc' = "ParsingError"
       ELSE lines' = parse_hack(final_assembly) /\ asm_pc' = "parsed"
    /\ UNCHANGED <<statements, symbol_table, binary>>
    /\ UNCHANGED <<trVars, cpuVars, jackVars, symVars, compVars, stageVars>>

\* one instruction of the machine: the word at pc
Step ==
    /\ asm_pc = "written" /\ tr_pc = "done"
    /\ pc < Len(binary)
    /\ LET word == binary[pc + 1] IN
       IF word <= MASK
       THEN /\ regA' = word
            /\ pc' = pc + 1
            /\ UNCHANGED <<regD, ram>>
       ELSE LET operation == OperationOf(word)
                dest == DestOf(word)
                jump == JumpOf(word)
            IN /\ (ReadsM(operation) \/ WritesM(dest)) => regA \in DOMAIN ram
               /\ LET m == IF ReadsM(operation) THEN ram[regA] ELSE 0
                      w == Comp(operation, regA, regD, m)
                  IN /\ regA' = IF WritesA(dest) THEN w ELSE regA
                     /\ regD' = IF WritesD(dest) THEN w ELSE regD
                     /\ ram' = IF WritesM(dest) THEN [ram EXCEPT ![regA] = w] ELSE ram
                     /\ pc' = IF JumpTaken(jump, w) THEN regA ELSE pc + 1
    /\ UNCHANGED <<trVars, ram0>>
    /\ VmOnly

-----------------------------------------------------------------------------
(* Programs run on the machine.  A frame is laid out as the call protocol   *)
(* leaves it: the arguments, the locals, then the working stack; this and   *)
(* that point above the stack.                                              *)

\* the largest segment index of a pop/push pair
MaxIndex == 2
\* the largest argument count of a call
MaxArgs == 2
\* the largest local count of a function
MaxLocals == 2

\* "SP=256": the first cell of the stack
StackBase == 256

ArgBase   == StackBase
LclBase   == ArgBase + MaxIndex + 1
WorkBase  == LclBase + MaxIndex + 1
\* arguments, the five saved words, locals, one pushed value and slack
WorkCells == MaxArgs + MaxLocals + 8
ThisBase  == WorkBase + WorkCells
ThatBase  == ThisBase + MaxIndex + 1
RamCells  == (0 .. 15) \cup (StackBase .. ThatBase + MaxIndex)

\* words on both sides of the sign bit
Words == {0, 1, 2, 32767, 32768, 32769, 65535}

\* the frame's own pointers, and pointers of a caller that set none of them
FramePointers == <<LclBase, ArgBase, ThisBase, ThatBase>>
PointerSets   == {FramePointers, <<0, 65535, 1, 32768>>}

\* memory with the pointers ptrs and the working stack holding stack
InitRam(ptrs, stack) ==
    [c \in RamCells |->
        CASE c = 0 -> WorkBase + Len(stack)
          [] c \in 1 .. 4 -> ptrs[c]
          [] c >= WorkBase /\ c < WorkBase + Len(stack) -> stack[c - WorkBase + 1]
          [] OTHER -> 0]

ArithmeticOps == {"add", "sub", "neg", "eq", "gt", "lt", "and", "or", "not"}
IndirectSegments == {"local", "argument", "this", "that"}

\* the word in the stack cell the programs must leave alone
Below == 16^4 \div 3

\* one arithmetic or comparison command on a stack holding Below, x, y
ArithmeticRuns ==
    { [ast |-> <<VmOp(o)>>, ram |-> InitRam(FramePointers, <<Below, x, y>>)] :
        o \in ArithmeticOps, x \in Words, y \in Words }

\* push constant a; push constant b; add
ConstantRuns ==
    { [ast |-> <<VmPush("constant", a), VmPush("constant", b), VmOp("add")>>,
       ram |-> InitRam(FramePointers, <<Below>>)] : a \in {7, 32767}, b \in {8, 1} }

\* pop seg k; push seg k on a stack holding Below, v
PopPushRuns ==
    { [ast |-> <<VmPop(seg, k), VmPush(seg, k)>>,
       ram |-> InitRam(FramePointers, <<Below, v>>)] :
        seg \in IndirectSegments, k \in 0 .. MaxIndex, v \in Words }

\* push constant 1 .. push constant n
RECURSIVE PushArgs(_)
PushArgs(n) == IF n = 0 THEN <<>> ELSE Append(PushArgs(n - 1), VmPush("constant", n))

\* the caller pushes n arguments and calls Foo.f, which has k locals, pushes
\* v and returns; the caller then waits at END
CallProgram(n, k, v) ==
    PushArgs(n) \o
    <<VmCall("Foo.f", n), VmLabel("END"), VmGoto("END"),
      VmFunction("Foo.f", k), VmPush("constant", v), VmOp("return")>>

CallRuns ==
    { [ast |-> CallProgram(n, k, v), ram |-> InitRam(ptrs, <<Below>>)] :
        n \in 0 .. MaxArgs, k \in 0 .. MaxLocals, v \in {0, 5, 32767},
        ptrs \in PointerSets }

\* numbers the VM parser reads with nom's u32, on both sides of 2^15 and 2^16
PushedConstants == {0, 1, 32767, 32768, 40000, 65535, 65536, 100000}
\* push constant k
PushRuns ==
    { [ast |-> <<VmPush("constant", k)>>, ram |-> InitRam(ptrs, <<Below>>)] :
        k \in PushedConstants, ptrs \in PointerSets }

\* memory at the entry of a function: SP above one pushed word, LCL as given,
\* and words left by earlier code in every cell of the stack area
EntryRam(lcl) ==
    [c \in RamCells |->
        CASE c = 0 -> WorkBase + 1
          [] c = 1 -> lcl
          [] c \in 2 .. 4 -> FramePointers[c]
          [] c \in 5 .. 15 -> 0
          [] OTHER -> Below]

\* function Foo.f k, entered as the call expansion enters it (LCL = SP), with
\* LCL elsewhere in the frame, and with LCL never set (as after the bootstrap)
FunctionRuns ==
    { [ast |-> <<VmFunction("Foo.f", k)>>, ram |-> EntryRam(lcl)] :
        k \in 0 .. MaxLocals, lcl \in {WorkBase + 1, LclBase, 0} }

VmRuns ==
    ArithmeticRuns \cup ConstantRuns \cup PopPushRuns \cup CallRuns \cup PushRuns
        \cup FunctionRuns

InitVM ==
    /\ \E run \in VmRuns :
          /\ vm_files = <<[name |-> "Foo.vm", ast |-> run.ast]>>
          /\ ram = run.ram
          /\ ram0 = run.ram
    /\ is_dir = FALSE /\ final_assembly = <<>>
    /\ tr_result = "none" /\ tr_pc = "parsed"
    /\ regA = 0 /\ regD = 0 /\ pc = 0
    /\ AsmIdle /\ JackIdle /\ SymIdle /\ CompIdle /\ StageIdle

NextVM ==
    \/ TranslateFile
    \/ ReadAssembly
    \/ RemoveEmpty
    \/ FindLabels
    \/ RemoveAllLabels
    \/ FindVariables
    \/ InterpretAst
    \/ Step

SpecVM == InitVM /\ [][NextVM]_vars

\* memory when a function is about to return: LCL = frame, the return address
\* and the caller's LCL, ARG, THIS, THAT in the five cells below it (saved, in
\* that order), the value to return on top of the stack, and words left by
\* earlier code in R13, R14, R15
ReturnRam(frame, arg, sp, saved, left) ==
    [c \in RamCells |->
        CASE c = 0 -> sp
          [] c = 1 -> frame
          [] c = 2 -> arg
          [] c \in 3 .. 4 -> FramePointers[c]
          [] c \in 13 .. 15 -> left
          [] c \in 5 .. 12 -> 0
          [] c = sp - 1 -> Below
          [] c \in (frame - 5) .. (frame - 1) -> saved[c - (frame - 6)]
          [] OTHER -> 1]

\* return addresses outside the code, then the four saved pointers
SavedFrames == {<<1000, 1, 2, 3, 4>>, <<32767, 65535, 32768, 0, 7>>}

\* `return` alone, from a frame called with 0, 1 or 2 arguments (with 0 the
\* returned value goes to the cell of the return address)
ReturnRuns ==
    { [ast |-> <<VmOp("return")>>, ram |-> ReturnRam(frame, frame - 5 - n, sp, saved, left)] :
        frame \in {WorkBase + 2, WorkBase + 3}, n \in 0 .. MaxArgs,
        sp \in {WorkBase + 4, WorkBase + 5}, saved \in SavedFrames,
        left \in {0, 4, 65535} }

InitReturn ==
    /\ \E run \in ReturnRuns :
          /\ vm_files = <<[name |-> "Foo.vm", ast |-> run.ast]>>
          /\ ram = run.ram
          /\ ram0 = run.ram
    /\ is_dir = FALSE /\ final_assembly = <<>>
    /\ tr_result = "none" /\ tr_pc = "parsed"
    /\ regA = 0 /\ regD = 0 /\ pc = 0
    /\ AsmIdle /\ JackIdle /\ SymIdle /\ CompIdle /\ StageIdle

\* the machine executes the word at pc as long as there is one, and the
\* translator and the assembler run to their end
SpecReturn == InitReturn /\ [][NextVM]_vars /\ WF_vars(NextVM)

\* the program, and the word address at which the code of its statement
\* number i (from 1) begins
Ast == vm_files[1].ast
IsWord(line) == line.kind \in {"A", "C"}
StmtStart(i) ==
    Len(SelectSeq(translate_ast(SubSeq(Ast, 1, i - 1), vm_files[1].name).asm, IsWord))

\* the machine has run the whole of a straight-line program
Finished == asm_pc = "written" /\ pc = Len(binary)

\* the stack pointer and the two top cells before the program ran
SP0 == ram0[0]
X0  == ram0[SP0 - 2]
Y0  == ram0[SP0 - 1]

\* the pointers LCL, ARG, THIS, THAT are as they were before the program ran
PointersKept(mem) == \A c \in 1 .. 4 : mem[c] = ram0[c]
\* the working-stack cells below address top are as they were
BelowKept(mem, top) == \A c \in WorkBase .. top - 1 : mem[c] = ram0[c]

\* the call of a CallProgram, where it returns to, and what the callee pushes
IsCallRun   == \E i \in DOMAIN Ast : Ast[i].op = "call"
CallIndex   == CHOOSE i \in DOMAIN Ast : Ast[i].op = "call"
NArgs       == Ast[CallIndex].num
ReturnPoint == StmtStart(CallIndex + 1)
Pushed      == Ast[Len(Ast) - 1].address

\* C3: in a run of CallProgram(N, K, v) the machine reaches `call Foo.f N`
\* with the N arguments pushed and the caller's pointers in place, and the
\* last instruction of the expansion of `return` jumps to the word after the
\* expansion of the call, with LCL, ARG, THIS, THAT as before the call,
\* SP = (SP before the call) - N + 1 and v in the cell below SP.
C3_CallReturn ==
    [][ /\ (IsCallRun /\ asm_pc = "written" /\ pc = StmtStart(CallIndex))
            => (ram[0] = SP0 + NArgs /\ PointersKept(ram))
        /\ (IsCallRun /\ asm_pc = "written" /\ pc = Len(binary) - 1)
            => /\ pc' = ReturnPoint
               /\ PointersKept(ram')
               /\ ram'[0] = (SP0 + NArgs) - NArgs + 1
               /\ ram'[ram'[0] - 1] = Pushed
               /\ BelowKept(ram', SP0) ]_vars

\* a call without arguments has returned a value other than 0
C3_Witness ==
    /\ IsCallRun /\ asm_pc = "written" /\ pc = ReturnPoint
    /\ NArgs = 0 /\ Pushed = 5 /\ ram[ram[0] - 1] = 5
    /\ Ast[CallIndex + 3].num = MaxLocals

\* the program is the single command o
IsOpRun(o) == Ast = <<VmOp(o)>>

\* -1 and 0 as words
TrueWord  == WordMod - 1
FalseWord == 0

\* C5: after `gt` (`lt`) on a stack holding x below y, the cell of x holds -1
\* if x > y (x < y) as signed 16-bit numbers and 0 otherwise, and SP is one
\* lower.
C5_SignedComparison ==
    /\ (Finished /\ IsOpRun("gt")) =>
          /\ ram[0] = SP0 - 1
          /\ ram[SP0 - 2] = IF Signed(X0) > Signed(Y0) THEN TrueWord ELSE FalseWord
    /\ (Finished /\ IsOpRun("lt")) =>
          /\ ram[0] = SP0 - 1
          /\ ram[SP0 - 2] = IF Signed(X0) < Signed(Y0) THEN TrueWord ELSE FalseWord

\* C6: after `eq` on a stack holding x below y, the cell of x holds -1 if
\* x = y and 0 if x # y, and SP is one lower.
C6_Equality ==
    (Finished /\ IsOpRun("eq")) =>
        /\ ram[0] = SP0 - 1
        /\ ram[SP0 - 2] = IF X0 = Y0 THEN TrueWord ELSE FalseWord

\* eq has run on two different words whose difference is not 1
C6_Witness ==
    Finished /\ IsOpRun("eq") /\ X0 = 32768 /\ Y0 = 1 /\ ram[SP0 - 2] = FalseWord

\* what a binary command leaves for x below y, and a unary one for y
BinaryResult(o, x, y) ==
    CASE o = "add" -> U16(x + y)
      [] o = "sub" -> U16(x + WordMod - y)
      [] o = "and" -> And16(x, y)
      [] o = "or"  -> Or16(x, y)
UnaryResult(o, y) ==
    CASE o = "neg" -> U16(WordMod - y)
      [] o = "not" -> WordMod - 1 - y

\* C7: add, sub, and, or leave x+y, x-y, x&y, x|y (mod 2^16) in the cell of
\* x with SP one lower; neg and not leave -y and !y in the cell of y with SP
\* as it was; LCL, ARG, THIS, THAT and the stack cells below are unchanged;
\* push constant 7, push constant 8, add leaves 15 below SP.
C7_Arithmetic ==
    /\ \A o \in {"add", "sub", "and", "or"} :
          (Finished /\ IsOpRun(o)) =>
              /\ ram[0] = SP0 - 1
              /\ ram[SP0 - 2] = BinaryResult(o, X0, Y0)
              /\ PointersKept(ram) /\ BelowKept(ram, SP0 - 2)
    /\ \A o \in {"neg", "not"} :
          (Finished /\ IsOpRun(o)) =>
              /\ ram[0] = SP0
              /\ ram[SP0 - 1] = UnaryResult(o, Y0)
              /\ PointersKept(ram) /\ BelowKept(ram, SP0 - 1)
    /\ (Finished /\ Ast = <<VmPush("constant", 7), VmPush("constant", 8), VmOp("add")>>)
          => (ram[ram[0] - 1] = 15 /\ ram[0] = SP0 + 1
              /\ PointersKept(ram) /\ BelowKept(ram, SP0))

\* sub has run on operands whose difference needs the wrap-around
C7_Witness ==
    Finished /\ IsOpRun("sub") /\ X0 = 1 /\ Y0 = 32768 /\ ram[SP0 - 2] = 32769

\* the program is pop seg k; push seg k
IsPopPushRun ==
    /\ Len(Ast) = 2 /\ Ast[1].op = "pop" /\ Ast[2].op = "push"
    /\ Ast[1].segment \in IndirectSegments
    /\ Ast[2].segment = Ast[1].segment /\ Ast[2].address = Ast[1].address

\* the register of a segment's base pointer: LCL, ARG, THIS, THAT
BaseRegister(seg) ==
    CASE seg = "local" -> 1 [] seg = "argument" -> 2 [] seg = "this" -> 3 [] seg = "that" -> 4

\* C9: after `pop seg k` the cell RAM[base] + k holds the value that was on
\* top and SP is one lower; after the following `push seg k` that value is on
\* top again, and SP, the base pointer and the stack cells below the top are
\* as before the pop.
C9_PopPush ==
    /\ (IsPopPushRun /\ asm_pc = "written" /\ pc = StmtStart(2)) =>
          /\ ram[ram0[BaseRegister(Ast[1].segment)] + Ast[1].address] = Y0
          /\ ram[0] = SP0 - 1
    /\ (IsPopPushRun /\ Finished) =>
          /\ ram[0] = SP0
          /\ ram[SP0 - 1] = Y0
          /\ ram[BaseRegister(Ast[1].segment)] = ram0[BaseRegister(Ast[1].segment)]
          /\ ram[ram0[BaseRegister(Ast[1].segment)] + Ast[1].address] = Y0
          /\ BelowKept(ram, SP0 - 1)

\* pop that MaxIndex; push that MaxIndex has run on a top value other than
\* the one below it
C9_Witness ==
    /\ IsPopPushRun /\ Finished
    /\ Ast[1].segment = "that" /\ Ast[1].address = MaxIndex
    /\ Y0 = 32769 /\ ram[ThatBase + MaxIndex] = 32769

-----------------------------------------------------------------------------
(* Translation alone: what parse_and_convert_vm writes for a file and for   *)
(* a directory of files.                                                    *)

\* the most statements around the push or pop under test
MaxPad == 2
\* the longest program of label-generating commands in a single file
MaxLabelLen == 3
\* the most statements in the files of a directory
MaxDirLen == 3

MemorySegments ==
    {"constant", "local", "argument", "this", "that", "static", "temp", "pointer"}
\* indices on both sides of the last temp register and the last pointer
TrIndices == {0, 1, 2, 7, 8, 32768}

\* every push and pop
AddressStmts ==
    {VmPush(seg, k) : seg \in MemorySegments, k \in TrIndices}
        \cup {VmPop(seg, k) : seg \in MemorySegments, k \in TrIndices}

\* statements that translate
PadStmts == {VmOp("add"), VmPush("constant", 0), VmPop("temp", 7)}

\* the sequences over S of length 0 .. n
RECURSIVE SeqsUpTo(_, _)
SeqsUpTo(S, n) ==
    IF n = 0 THEN {<<>>}
    ELSE LET shorter == SeqsUpTo(S, n - 1) IN
         shorter \cup {Append(q, x) : q \in shorter, x \in S}

\* a push or pop with up to MaxPad translatable statements around it
AddressPrograms ==
    UNION { { before \o <<stmt>> \o after :
                stmt \in AddressStmts,
                after \in SeqsUpTo(PadStmts, MaxPad - Len(before)) } :
            before \in SeqsUpTo(PadStmts, MaxPad) }

\* the commands with generated labels, and jumps to names of the program's
\* own, one of them spelled like a generated label
LabelStmts ==
    {VmOp("eq"), VmOp("gt"), VmOp("lt"), VmOp("return"), VmCall("Foo.f", 0),
     VmGoto("LOOP"), VmGoto("Foo.vm.EQ_END_0")}
LabelPrograms == SeqsUpTo(LabelStmts, MaxLabelLen) \ {<<>>}

DirStmts == {VmOp("eq"), VmOp("gt"), VmOp("lt"), VmOp("return"), VmCall("Foo.f", 0)}

FileInputs ==
    { <<[name |-> "Foo.vm", ast |-> ast]>> : ast \in AddressPrograms \cup LabelPrograms }

\* a directory holds Foo.vm and Bar.vm, listed in either order
DirInputs ==
    UNION { { <<[name |-> names[1], ast |-> a], [name |-> names[2], ast |-> b]>> :
                names \in {<<"Foo.vm", "Bar.vm">>, <<"Bar.vm", "Foo.vm">>},
                b \in SeqsUpTo(DirStmts, MaxDirLen - Len(a)) } :
            a \in SeqsUpTo(DirStmts, MaxDirLen) }

InitTr ==
    /\ \/ (is_dir = FALSE /\ vm_files \in FileInputs)
       \/ (is_dir = TRUE /\ vm_files \in DirInputs)
    /\ final_assembly = <<>> /\ tr_result = "none" /\ tr_pc = "parsed"
    /\ AsmIdle /\ CpuIdle /\ JackIdle /\ SymIdle /\ CompIdle /\ StageIdle

NextTr == TranslateFile \/ TranslateDirectory

SpecTr == InitTr /\ [][NextTr]_vars

\* a statement of a file: <<f, i>> is statement i of vm_files[f]
Sites == UNION {{<<f, i>> : i \in DOMAIN vm_files[f].ast} : f \in DOMAIN vm_files}
SiteStmt(site) == vm_files[site[1]].ast[site[2]]

\* the number of lines written for the first i statements of file f
PrefixLines(f, i) ==
    Len(translate_ast(SubSeq(vm_files[f].ast, 1, i), vm_files[f].name).asm)

\* the number of lines written before those of file f
RECURSIVE FileStart(_)
FileStart(f) ==
    IF f = 1 THEN (IF is_dir THEN Len(Bootstrap) ELSE 0)
    ELSE FileStart(f - 1) + PrefixLines(f - 1, Len(vm_files[f - 1].ast))

\* the places in final_assembly of the lines written for a statement
SitePlaces(site) ==
    (FileStart(site[1]) + PrefixLines(site[1], site[2] - 1) + 1)
        .. (FileStart(site[1]) + PrefixLines(site[1], site[2]))

\* the statements whose expansion declares a label of its own
GeneratingSites ==
    {site \in Sites : SiteStmt(site).op \in {"eq", "gt", "lt", "return", "call"}}

\* the names a statement's lines declare, and the places that refer to a name
Declared(site) ==
    {final_assembly[p].symbol :
        p \in {q \in SitePlaces(site) : final_assembly[q].kind = "Label"}}
References(name) ==
    {p \in DOMAIN final_assembly :
        final_assembly[p].kind = "A" /\ final_assembly[p].is_symbol
        /\ final_assembly[p].symbol = name}

\* the names the program itself gives to labels and functions
ProgramNames ==
    {SiteStmt(site).name :
        site \in {t \in Sites :
                    SiteStmt(t).op \in {"label", "goto", "if-goto", "function", "call"}}}
GeneratedNames == UNION {Declared(site) : site \in GeneratingSites}

Translated == tr_pc = "done" /\ tr_result = "Ok"

\* the generating statements, each with the names it declares and its places
Generated == {<<site, Declared(site), SitePlaces(site)>> : site \in GeneratingSites}

\* every generating statement declares one label, and no two the same
GeneratedDistinct ==
    LET gen == Generated IN
    /\ \A g \in gen : Cardinality(g[2]) = 1
    /\ \A g \in gen : \A h \in gen : g[1] # h[1] => g[2] \cap h[2] = {}

\* a generated label is referred to from the lines of its own statement only
GeneratedPrivate ==
    \A g \in Generated : \A name \in g[2] : References(name) \subseteq g[3]

Unsupported(stmt) ==
    \/ stmt.op = "pop" /\ stmt.segment = "constant"
    \/ stmt.op \in {"push", "pop"} /\ stmt.segment = "temp" /\ stmt.address > 7
    \/ stmt.op \in {"push", "pop"} /\ stmt.segment = "pointer" /\ stmt.address > 1

\* C10: translating a file fails, and writes no assembly at all, if the
\* program holds `pop constant k`, a push or pop of `temp k` with k > 7 or of
\* `pointer k` with k > 1; with any other segment and index it succeeds.
C10_TranslationErrors ==
    (tr_pc = "done" /\ ~is_dir) =>
        IF \E i \in DOMAIN vm_files[1].ast : Unsupported(vm_files[1].ast[i])
        THEN tr_result = "TranslationError" /\ final_assembly = <<>>
        ELSE tr_result = "Ok" /\ final_assembly # <<>>

\* pop pointer 2 after two statements that translate
C10_Witness ==
    /\ tr_pc = "done" /\ ~is_dir
    /\ Len(vm_files[1].ast) = 3
    /\ vm_files[1].ast[3] = VmPop("pointer", 2)
    /\ tr_result = "TranslationError"

-----------------------------------------------------------------------------
(* The encoding of single instructions: interpret_ast on every statement    *)
(* the parser can produce, alone and after a label declaration.             *)

\* literals of "@v" (a u16) on both sides of bit 15
EncValues == {0, 1, 16384, 32767, 32768, 40000, 65535}
\* predefined symbols, a label and a variable
EncSymbols == {"SCREEN", "KBD", "R15", "THAT", "LOOP", "i"}

Dests == {"NULL", "M", "D", "MD", "A", "AM", "AD", "AMD"}
Jumps == {"JGT", "JEQ", "JGE", "JLT", "JNE", "JLE", "JMP"}

\* the commands parse_c_statement returns: "dest=operation" (jump: None) and
\* "operation;jump" (dest: None)
Commands ==
    {CStmt(d, o, "") : d \in Dests, o \in Operations}
        \cup {CStmt("", o, j) : o \in Operations, j \in Jumps}

EncAlphabet ==
    {AValue(v) : v \in EncValues} \cup {ASymbol(n) : n \in EncSymbols} \cup Commands

EncInputs ==
    {<<stmt>> : stmt \in EncAlphabet}
        \cup {<<LabelStmt("LOOP"), EmptyStmt, stmt>> : stmt \in EncAlphabet}

InitEnc ==
    /\ lines \in EncInputs
    /\ statements = <<>> /\ symbol_table = <<>>
    /\ binary = <<>> /\ asm_pc = "parsed"
    /\ TrIdle /\ CpuIdle /\ JackIdle /\ SymIdle /\ CompIdle /\ StageIdle

SpecEnc == InitEnc /\ [][NextAsm]_vars

\* the word of every command the parser can produce
CommandWords == [c \in Commands |-> convert_c_statement(c)]

\* C11: every A statement is emitted as a word with bit 15 equal to 0 whose
\* low 15 bits are v mod 2^15, v being the literal or the value bound to the
\* symbol; @65535 gives 0111111111111111, @SCREEN gives 0100000000000000 and a
\* label declared before the first instruction gives 0.
C11_AInstruction ==
    asm_pc = "written" =>
        \A i \in 1..Len(statements) :
            statements[i].kind = "A" =>
                LET stmt == statements[i]
                    v == IF stmt.is_symbol THEN symbol_table[stmt.symbol]
                         ELSE stmt.value
                IN  /\ binary[i] \in 0..(2^15 - 1)
                    /\ binary[i] = v % 2^15
                    /\ stmt = AValue(65535) => binary[i] = 2^15 - 1
                    /\ stmt = ASymbol("SCREEN") => binary[i] = 2^14
                    /\ (stmt = ASymbol("LOOP") /\ lines[1] = LabelStmt("LOOP"))
                          => binary[i] = 0

\* a literal with bit 15 set has been encoded
C11_Witness ==
    /\ asm_pc = "written"
    /\ \E i \in 1..Len(statements) :
          statements[i] = AValue(65535) /\ binary[i] = 32767

\* the A computation an M computation corresponds to
MatchingA(operation) ==
    CASE operation = "M"   -> "A"   [] operation = "!M"  -> "!A"
      [] operation = "-M"  -> "-A"  [] operation = "M+1" -> "A+1"
      [] operation = "M-1" -> "A-1" [] operation = "D+M" -> "D+A"
      [] operation = "D-M" -> "D-A" [] operation = "M-D" -> "A-D"
      [] operation = "D&M" -> "D&A" [] operation = "D|M" -> "D|A"

\* the 3-bit dest: A = 4, D = 2, M = 1
DestBits(d) ==
    (IF WritesA(d) THEN 4 ELSE 0) + (IF WritesD(d) THEN 2 ELSE 0)
        + (IF WritesM(d) THEN 1 ELSE 0)

\* C12: every command is emitted as 111, the 7-bit comp code, the 3-bit dest
\* (A = 4, D = 2, M = 1, absent = 0) and the 3-bit jump (absent = 0); the 28
\* comp codes are pairwise distinct, a computation on M has the code of the
\* matching computation on A plus the top comp bit, and no other command has
\* the same word.
C12_CInstruction ==
    asm_pc = "written" =>
        \A i \in 1..Len(statements) :
            statements[i].kind = "C" =>
                LET stmt == statements[i]
                    word == binary[i]
                IN  /\ word \in 0..(WordMod - 1)
                    /\ word \div 2^13 = 7
                    /\ (word \div 2^6) % 2^7 = convert_operation(stmt.operation)
                    /\ (word \div 2^3) % 2^3 = DestBits(stmt.dest)
                    /\ word % 2^3 = JumpCode(stmt.jump)
                    /\ stmt.jump = "" => word % 2^3 = 0
                    /\ stmt.jump # "" => word % 2^3 \in 1..7
                    /\ Cardinality(Operations) = 28
                    /\ \A o1, o2 \in Operations :
                          convert_operation(o1) = convert_operation(o2) => o1 = o2
                    /\ \A o \in Operations :
                          /\ convert_operation(o) \in 0..(2^7 - 1)
                          /\ IF ReadsM(o)
                             THEN convert_operation(o)
                                     = convert_operation(MatchingA(o)) + 2^6
                             ELSE convert_operation(o) < 2^6
                    /\ \A c \in Commands : CommandWords[c] = word => c = stmt

\* a command on M with two destinations has been encoded
C12_Witness ==
    /\ asm_pc = "written"
    /\ \E i \in 1..Len(statements) :
          /\ statements[i] = CStmt("MD", "M-1", "")
          /\ (binary[i] \div 2^12) % 2 = 1
          /\ (binary[i] \div 2^3) % 2^3 = 3

-----------------------------------------------------------------------------
(* Calls on one SymbolTable in any order.  frames records what the caller   *)
(* declared: frames[1] is the class level, each create_scope opens a frame, *)
(* each pop_scope closes the innermost open one.                            *)

\* most entries in the table
MaxSymVars == 3
\* most scopes open at once
MaxScopes == 2

SymNames == {"x", "y"}
SymTypes == {"int"}

Declaration(name, var_type, scope) ==
    [name |-> name, var_type |-> var_type, scope |-> scope]

Declare(name, var_type, scope) ==
    [frames EXCEPT ![Len(frames)] = Append(@, Declaration(name, var_type, scope))]

SymOnly == UNCHANGED <<asmVars, trVars, cpuVars, jackVars, compVars, stageVars>>

AddField ==
    /\ Len(symbols.vars) < MaxSymVars
    /\ \E n \in SymNames, t \in SymTypes :
          /\ symbols' = add_field(symbols, n, t)
          /\ frames' = Declare(n, t, "Field")
    /\ SymOnly

AddStatic ==
    /\ Len(symbols.vars) < MaxSymVars
    /\ \E n \in SymNames, t \in SymTypes :
          /\ symbols' = add_static(symbols, n, t)
          /\ frames' = Declare(n, t, "Static")
    /\ SymOnly

AddArgument ==
    /\ Len(symbols.vars) < MaxSymVars
    /\ \E n \in SymNames, t \in SymTypes :
          /\ symbols' = add_argument(symbols, n, t)
          /\ frames' = Declare(n, t, "Argument")
    /\ SymOnly

AddLocal ==
    /\ Len(symbols.vars) < MaxSymVars
    /\ \E n \in SymNames, t \in SymTypes :
          /\ symbols' = add_local(symbols, n, t)
          /\ frames' = Declare(n, t, "Local")
    /\ SymOnly

CreateScope ==
    /\ Len(symbols.scopes) < MaxScopes
    /\ symbols' = create_scope(symbols)
    /\ frames' = Append(frames, <<>>)
    /\ SymOnly

\* pop_scope may be called with no scope open
PopScope ==
    /\ symbols' = pop_scope(symbols)
    /\ frames' = IF Len(frames) > 1 THEN SubSeq(frames, 1, Len(frames) - 1) ELSE frames
    /\ SymOnly

InitSym ==
    /\ symbols = SymbolTable_new
    /\ frames = << <<>> >>
    /\ AsmIdle /\ TrIdle /\ CpuIdle /\ JackIdle /\ CompIdle /\ StageIdle

NextSym ==
    \/ AddField
    \/ AddStatic
    \/ AddArgument
    \/ AddLocal
    \/ CreateScope
    \/ PopScope

SpecSym == InitSym /\ [][NextSym]_vars

\* the declarations of frame f that are named name
Named(f, name) == {k \in 1..Len(frames[f]) : frames[f][k].name = name}

\* the number a declaration has among those of its kind in its frame
NumberInFrame(f, k) ==
    Cardinality({j \in 1..(k - 1) : frames[f][j].scope = frames[f][k].scope})

\* the position in symbols.vars of declaration k of frame f
Position(f, k) ==
    LET before[g \in 0..(f - 1)] ==
            IF g = 0 THEN 0 ELSE before[g - 1] + Len(frames[g])
    IN  before[f - 1] + k

Entries == {<<f, k>> \in (1..Len(frames)) \X (1..MaxSymVars) : k <= Len(frames[f])}

\* C19: find_variable(name) is the newest declaration of the name in the
\* innermost open scope that has one (a local or argument shadows a field or
\* static), with the kind it was declared with; the table holds exactly the
\* declarations of the scopes still open, so pop_scope removes what was
\* added since the matching create_scope and nothing else, and without an
\* open scope it removes nothing.
C19_Lookup ==
    /\ Len(symbols.vars) = Cardinality(Entries)
    /\ Len(symbols.scopes) = Len(frames) - 1
    /\ \A name \in SymNames :
          LET open == {f \in 1..Len(frames) : Named(f, name) # {}}
              found == find_variable(symbols, name)
          IN  IF open = {} THEN found = NoVariable
              ELSE LET f == MaxOf(open)
                       k == MaxOf(Named(f, name))
                   IN  /\ found.name = name
                       /\ found.scope = frames[f][k].scope
                       /\ found.var_type = frames[f][k].var_type
                       /\ found = symbols.vars[Position(f, k)]

\* a local shadows a field of the same name
C19_Witness ==
    /\ Len(frames) = 2
    /\ \E k \in 1..Len(frames[1]) :
          frames[1][k].name = "x" /\ frames[1][k].scope = "Field"
    /\ \E k \in 1..Len(frames[2]) :
          frames[2][k].name = "x" /\ frames[2][k].scope = "Local"
    /\ find_variable(symbols, "x").scope = "Local"

\* C20: within a scope the entries of each kind are numbered 0, 1, 2, ... in
\* insertion order, each kind on its own, so arguments and locals start at 0
\* in every new scope; fields and statics of the class level keep their
\* numbers while scopes are opened and closed, and a lookup finds them in
\* every scope that declares nothing of the same name.
C20_Indices ==
    /\ \A d \in Entries :
          LET entry == symbols.vars[Position(d[1], d[2])]
          IN  /\ entry.name = frames[d[1]][d[2]].name
              /\ entry.scope = frames[d[1]][d[2]].scope
              /\ entry.index = NumberInFrame(d[1], d[2])
    /\ \A k \in 1..Len(frames[1]) :
          (/\ frames[1][k].scope \in {"Field", "Static"}
           /\ \A d \in Entries :
                 (d[1] > 1 \/ d[2] > k) => frames[d[1]][d[2]].name # frames[1][k].name)
             => /\ find_variable(symbols, frames[1][k].name).scope = frames[1][k].scope
                /\ find_variable(symbols, frames[1][k].name).index = NumberInFrame(1, k)

\* two fields at class level and, in a scope, a second argument and a first local
C20_Witness ==
    /\ Len(frames) = 2
    /\ Len(symbols.vars) >= 3
    /\ \E k \in 1..Len(frames[2]) :
          /\ frames[2][k].scope = "Local"
          /\ symbols.vars[Position(2, k)].index = 0
          /\ k > 1
    /\ \E k \in 1..Len(frames[1]) :
          frames[1][k].scope = "Field" /\ find_variable(symbols, frames[1][k].name).index = 0

-----------------------------------------------------------------------------
(* The Jack code generator: src/compiler/src/compiler.rs, on the AST of     *)
(* src/compiler/src/ast.                                                     *)

\* VariableType: "Array" "Int" "Char" "Boolean", or ClassName(name)
VariableType(kind) == [kind |-> kind, name |-> ""]
ClassName(name) == [kind |-> "ClassName", name |-> name]
\* Variable::new(identifier, var_type)
Variable(identifier, var_type) == [identifier |-> identifier, var_type |-> var_type]

\* format!("{:?}", var_type): the derived Debug form
DebugFormat(var_type) ==
    IF var_type.kind = "ClassName" THEN "ClassName(\"" \o var_type.name \o "\")"
    ELSE var_type.kind

\* Statement::Let(LetDetails { identifier, expression })
LetStatement(identifier, expression) ==
    [tag |-> "Let", identifier |-> identifier, expression |-> expression]
\* Statement::While(WhileDetails { condition, body })
WhileStatement(condition, body) ==
    [tag |-> "While", condition |-> condition, body |-> body]
\* Statement::Do(call)
DoStatement(call) == [tag |-> "Do", call |-> call]
\* Statement::If(IfDetails { condition, if_body, else_body: None })
IfStatement(condition, if_body) ==
    [tag |-> "If", condition |-> condition, if_body |-> if_body,
     has_else |-> FALSE, else_body |-> <<>>]
\* Statement::If(IfDetails { condition, if_body, else_body: Some(else_body) })
IfElseStatement(condition, if_body, else_body) ==
    [tag |-> "If", condition |-> condition, if_body |-> if_body,
     has_else |-> TRUE, else_body |-> else_body]
\* Statement::Return(None) and Statement::Return(Some(expr))
ReturnVoid == [tag |-> "Return", has_expr |-> FALSE, expr |-> <<>>]
ReturnExpr(e) == [tag |-> "Return", has_expr |-> TRUE, expr |-> e]
\* Statement::VarDecl(VarDeclDetails { variables })
VarDecl(variables) == [tag |-> "VarDecl", variables |-> variables]

\* Subroutine { subroutine_type, identifier, parameters, statements }
Subroutine(subroutine_type, identifier, parameters, stmts) ==
    [subroutine_type |-> subroutine_type, identifier |-> identifier,
     parameters |-> parameters, statements |-> stmts]
\* ClassVariable { visibility, var_type, identifier }
ClassVariable(visibility, var_type, identifier) ==
    [visibility |-> visibility, var_type |-> var_type, identifier |-> identifier]
\* Class { identifier, subroutines, variables }
Class(identifier, variables, subroutines) ==
    [identifier |-> identifier, variables |-> variables, subroutines |-> subroutines]

\* the result of compile_statement: the lines pushed and the context after it
Done(out, context) == [ok |-> TRUE, out |-> out, err |-> "", context |-> context]
Failed(result, context) ==
    [ok |-> FALSE, out |-> <<>>, err |-> result.err, context |-> context]

RECURSIVE add_locals(_, _)
\* for var in var_details.get_variables() { symbol_table.add_local(...) }
add_locals(variables, table) ==
    IF variables = <<>> THEN table
    ELSE With(add_local(table, Head(variables).identifier,
                        DebugFormat(Head(variables).var_type)),
              LAMBDA added : add_locals(Tail(variables), added))

RECURSIVE find_var_decl_in_statement_tree(_, _)
RECURSIVE find_var_decls(_, _)

\* for s in statements { find_var_decl_in_statement_tree(s, symbol_table) }
find_var_decls(stmts, table) ==
    IF stmts = <<>> THEN table
    ELSE With(find_var_decl_in_statement_tree(Head(stmts), table),
              LAMBDA found : find_var_decls(Tail(stmts), found))

find_var_decl_in_statement_tree(statement, table) ==
    CASE statement.tag = "While" -> find_var_decls(statement.body, table)
      [] statement.tag = "If" ->
            With(find_var_decls(statement.if_body, table), LAMBDA after_if :
               IF statement.has_else THEN find_var_decls(statement.else_body, after_if)
               ELSE after_if)
      [] statement.tag = "VarDecl" -> add_locals(statement.variables, table)
      [] OTHER -> table

\* CompilationContext::next_while_label / next_if_label: the label made
while_label_nocount(context) ==
    context.subroutine_name \o ".while.0"
while_label(context) ==
    context.subroutine_name \o ".while." \o ToString(context.while_count)
if_label(context) ==
    context.subroutine_name \o ".if." \o ToString(context.if_count)

RECURSIVE compile_statement(_, _)
RECURSIVE compile_statements(_, _)

\* for s in body { compile_statement(output, s, context)?; }
compile_statements(stmts, context) ==
    IF stmts = <<>> THEN Done(<<>>, context)
    ELSE With(compile_statement(Head(stmts), context), LAMBDA first :
            IF ~first.ok THEN first
            ELSE With(compile_statements(Tail(stmts), first.context), LAMBDA rest :
                    IF ~rest.ok THEN rest
                    ELSE Done(first.out \o rest.out, rest.context)))

\* Statement::Let
compile_let(details, context) ==
    With(compile_expression(details.expression, context), LAMBDA expression :
       IF ~expression.ok THEN Failed(expression, context)
       ELSE IF details.identifier.has_index THEN Failed(Panic, context)
       ELSE LET variable == find_variable(context.symbol_table, details.identifier.name)
            IN  IF variable = NoVariable
                THEN Failed(MissingVariable(details.identifier.name), context)
                ELSE Done(expression.out
                             \o <<VmPop(ScopeSegment(variable.scope), variable.index)>>,
                          context))

\* Statement::While with the body emitted before the jump out of the loop
compile_while_bodyfirst(details, context) ==
    LET label == while_label(context)
        counted == [context EXCEPT !.while_count = @ + 1]
    IN  With(compile_expression(details.condition, counted), LAMBDA condition :
           IF ~condition.ok THEN Failed(condition, counted)
           ELSE With(compile_statements(details.body, counted), LAMBDA body :
                   IF ~body.ok THEN body
                   ELSE Done(<<VmLabel(label \o ".condition")>> \o condition.out
                                \o <<VmIfGoto(label \o ".while_body"),
                                     VmLabel(label \o ".while_body")>>
                                \o body.out
                                \o <<VmGoto(label \o ".condition"),
                                     VmLabel(label \o ".while_end")>>,
                             body.context)))

\* Statement::While
compile_while(details, context) ==
    LET label == while_label(context)
        counted == [context EXCEPT !.while_count = @ + 1]
    IN  With(compile_expression(details.condition, counted), LAMBDA condition :
           IF ~condition.ok THEN Failed(condition, counted)
           ELSE With(compile_statements(details.body, counted), LAMBDA body :
                   IF ~body.ok THEN body
                   ELSE Done(<<VmLabel(label \o ".condition")>> \o condition.out
                                \o <<VmIfGoto(label \o ".while_body"),
                                     VmGoto(label \o ".while_end"),
                                     VmLabel(label \o ".while_body")>>
                                \o body.out
                                \o <<VmGoto(label \o ".condition"),
                                     VmLabel(label \o ".while_end")>>,
                             body.context)))

\* Statement::Do without the pop of the returned value
compile_do_nopop(call, context) ==
    With(compile_parameters(call.parameters, context), LAMBDA parameters :
       IF ~parameters.ok THEN Failed(parameters, context)
       ELSE Done(parameters.out
                    \o <<VmCall(name_as_string(call), Len(call.parameters))>>,
                 context))

\* Statement::Do
compile_do(call, context) ==
    With(compile_parameters(call.parameters, context), LAMBDA parameters :
       IF ~parameters.ok THEN Failed(parameters, context)
       ELSE Done(parameters.out
                    \o <<VmCall(name_as_string(call), Len(call.parameters)),
                         VmPop("temp", 0)>>,
                 context))

\* Statement::If with the then-body in the fallthrough path
compile_if_thenfirst(details, context) ==
    LET label == if_label(context)
        counted == [context EXCEPT !.if_count = @ + 1]
    IN  With(compile_expression(details.condition, counted), LAMBDA condition :
           IF ~condition.ok THEN Failed(condition, counted)
           ELSE With(compile_statements(details.if_body, counted), LAMBDA if_body :
                   IF ~if_body.ok THEN if_body
                   ELSE With(IF details.has_else
                             THEN compile_statements(details.else_body, if_body.context)
                             ELSE Done(<<>>, if_body.context),
                             LAMBDA else_body :
                           IF ~else_body.ok THEN else_body
                           ELSE Done(condition.out
                                        \o <<VmIfGoto(label \o ".if_body")>>
                                        \o if_body.out
                                        \o <<VmGoto(label \o ".if_end"),
                                             VmLabel(label \o ".if_body")>>
                                        \o else_body.out
                                        \o <<VmLabel(label \o ".if_end")>>,
                                     else_body.context))))

\* Statement::If: the else body is compiled and emitted first
compile_if(details, context) ==
    LET label == if_label(context)
        counted == [context EXCEPT !.if_count = @ + 1]
    IN  With(compile_expression(details.condition, counted), LAMBDA condition :
           IF ~condition.ok THEN Failed(condition, counted)
           ELSE With(IF details.has_else
                     THEN compile_statements(details.else_body, counted)
                     ELSE Done(<<>>, counted),
                     LAMBDA else_body :
                   IF ~else_body.ok THEN else_body
                   ELSE With(compile_statements(details.if_body, else_body.context),
                             LAMBDA if_body :
                           IF ~if_body.ok THEN if_body
                           ELSE Done(condition.out
                                        \o <<VmIfGoto(label \o ".if_body")>>
                                        \o else_body.out
                                        \o <<VmGoto(label \o ".if_end"),
                                             VmLabel(label \o ".if_body")>>
                                        \o if_body.out
                                        \o <<VmLabel(label \o ".if_end")>>,
                                     if_body.context))))

\* Statement::Return
compile_return(statement, context) ==
    IF statement.has_expr
    THEN With(compile_expression(statement.expr, context), LAMBDA e :
            IF ~e.ok THEN Failed(e, context)
            ELSE Done(e.out \o <<VmOp("return")>>, context))
    ELSE Done(<<VmPush("constant", 0), VmOp("return")>>, context)

compile_statement(statement, context) ==
    CASE statement.tag = "Let"     -> compile_let(statement, context)
      [] statement.tag = "While"   -> compile_while(statement, context)
      [] statement.tag = "Do"      -> compile_do(statement.call, context)
      [] statement.tag = "If"      -> compile_if(statement, context)
      [] statement.tag = "Return"  -> compile_return(statement, context)
      [] statement.tag = "VarDecl" -> Done(<<>>, context)

RECURSIVE add_arguments(_, _)
\* for parameter in subroutine.get_parameters() { add_argument(...) }
add_arguments(parameters, table) ==
    IF parameters = <<>> THEN table
    ELSE With(add_argument(table, Head(parameters).identifier,
                           DebugFormat(Head(parameters).var_type)),
              LAMBDA added : add_arguments(Tail(parameters), added))

compile_subroutines(subroutine, context) ==
    With(find_var_decls(subroutine.statements,
                        add_arguments(subroutine.parameters, context.symbol_table)),
         LAMBDA table :
       LET scoped == [context EXCEPT !.symbol_table = table]
           num_args == count_locals(table)
       IN  With(compile_statements(subroutine.statements, scoped), LAMBDA body :
              IF ~body.ok THEN body
              ELSE Done(<<VmFunction(context.class_name \o "." \o subroutine.identifier,
                                     num_args)>> \o body.out,
                        body.context)))

RECURSIVE compile_class_loop(_, _)
\* compile_class without pop_scope after a subroutine
compile_class_loop_nopop(subroutines, context) ==
    IF subroutines = <<>> THEN Done(<<>>, context)
    ELSE LET entered == [context EXCEPT
                            !.symbol_table = create_scope(@),
                            !.subroutine_name = Head(subroutines).identifier]
         IN  With(compile_subroutines(Head(subroutines), entered), LAMBDA first :
                IF ~first.ok THEN first
                ELSE With(compile_class_loop(Tail(subroutines), first.context),
                          LAMBDA rest :
                        IF ~rest.ok THEN rest
                        ELSE Done(first.out \o rest.out, rest.context)))

\* for subroutine in class.subroutines(): create_scope, set_subroutine_name,
\* compile_subroutines(...)?, pop_scope
compile_class_loop(subroutines, context) ==
    IF subroutines = <<>> THEN Done(<<>>, context)
    ELSE LET entered == [context EXCEPT
                            !.symbol_table = create_scope(@),
                            !.subroutine_name = Head(subroutines).identifier]
         IN  With(compile_subroutines(Head(subroutines), entered), LAMBDA first :
                IF ~first.ok THEN first
                ELSE With([first.context EXCEPT !.symbol_table = pop_scope(@)],
                          LAMBDA left :
                        With(compile_class_loop(Tail(subroutines), left), LAMBDA rest :
                           IF ~rest.ok THEN rest
                           ELSE Done(first.out \o rest.out, rest.context))))

\* Result<Vec<String>, CompilationError>
compile_class(c) ==
    With(compile_class_loop(c.subroutines, CompilationContext_new(c.identifier)),
         LAMBDA result : [ok |-> result.ok, out |-> result.out, err |-> result.err])

-----------------------------------------------------------------------------
(* The VM running the lines of one compiled class, from its first function  *)
(* to that function's return.  What a line does is what its translation in  *)
(* src/vm-translator/src/translate_ast does on the Hack machine; values are *)
(* 16-bit words.  A call leaves the class and is not followed.              *)

VmUnaryOps  == {"neg", "not"}
VmBinaryOps == {"add", "sub", "eq", "gt", "lt", "and", "or"}
VmCells     == {"local", "argument", "temp", "pointer"}

\* pointer 0 and pointer 1 are THIS and THAT; `that k` is the RAM cell THAT + k
VmMemoryStart ==
    [stack |-> <<>>, local |-> <<>>, argument |-> <<>>, temp |-> [i \in 1..8 |-> 0],
     pointer |-> <<0, 0>>, ram |-> [a \in 0..7 |-> 0]]
ThatCell(line, memory) == memory.pointer[2] + line.address

\* the lines the machine executes
VmExecutes(line, memory) ==
    \/ line.op \in VmUnaryOps /\ Len(memory.stack) >= 1
    \/ line.op \in VmBinaryOps /\ Len(memory.stack) >= 2
    \/ line.op \in {"label", "goto", "function", "return"}
    \/ line.op = "if-goto" /\ Len(memory.stack) >= 1
    \/ line.op = "push" /\ line.segment = "constant"
    \/ /\ line.op = "push" /\ line.segment \in VmCells
       /\ line.address + 1 \in DOMAIN memory[line.segment]
    \/ /\ line.op = "pop" /\ line.segment \in VmCells
       /\ line.address + 1 \in DOMAIN memory[line.segment]
       /\ Len(memory.stack) >= 1
    \/ /\ line.op = "push" /\ line.segment = "that"
       /\ ThatCell(line, memory) \in DOMAIN memory.ram
    \/ /\ line.op = "pop" /\ line.segment = "that"
       /\ ThatCell(line, memory) \in DOMAIN memory.ram
       /\ Len(memory.stack) >= 1

\* the line "label name" of the code
LabelLine(code, name) == CHOOSE i \in 1..Len(code) : code[i] = VmLabel(name)

Pop1(stack) == SubSeq(stack, 1, Len(stack) - 1)
Pop2(stack) == SubSeq(stack, 1, Len(stack) - 2)
Top(stack)  == stack[Len(stack)]

\* the memory after the line
VmMemoryAfter(line, memory) ==
    LET stack == memory.stack IN
    CASE line.op = "function" ->
            [memory EXCEPT !.local = [i \in 1..line.num |-> 0]]
      [] line.op = "push" ->
            [memory EXCEPT !.stack =
                Append(stack, CASE line.segment = "constant" -> line.address
                                [] line.segment = "that" ->
                                      memory.ram[ThatCell(line, memory)]
                                [] OTHER -> memory[line.segment][line.address + 1])]
      [] line.op = "pop" /\ line.segment = "that" ->
            [memory EXCEPT !.stack = Pop1(stack),
                           !.ram[ThatCell(line, memory)] = Top(stack)]
      [] line.op = "pop" ->
            [memory EXCEPT !.stack = Pop1(stack),
                           ![line.segment][line.address + 1] = Top(stack)]
      [] line.op = "neg" -> [memory EXCEPT !.stack = Append(Pop1(stack), Neg16(Top(stack)))]
      [] line.op = "not" -> [memory EXCEPT !.stack = Append(Pop1(stack), Not16(Top(stack)))]
      [] line.op \in VmBinaryOps ->
            [memory EXCEPT !.stack =
                Append(Pop2(stack), VmBinary(line, stack[Len(stack) - 1], Top(stack)))]
      [] line.op = "if-goto" -> [memory EXCEPT !.stack = Pop1(stack)]
      [] OTHER -> memory

\* the line executed next: a goto jumps, an if-goto jumps on a popped value
\* other than 0
VmLineAfter(code, ip, memory) ==
    LET line == code[ip] IN
    CASE line.op = "goto" -> LabelLine(code, line.name)
      [] line.op = "if-goto" ->
            IF Top(memory.stack) # 0 THEN LabelLine(code, line.name) ELSE ip + 1
      [] OTHER -> ip + 1

\* what the run records: the labels passed and every if-goto with the value
\* it popped
VmEvent(line, memory) ==
    [op |-> line.op, name |-> line.name,
     value |-> IF line.op = "if-goto" THEN Top(memory.stack) ELSE 0]

-----------------------------------------------------------------------------
(* compile_class on classes of a few shapes, and the run of the result      *)

\* most iterations of a loop of the inputs
MaxIter == 2
\* most names in a var declaration of the inputs
MaxDecls == 2
\* most arguments of a call of the inputs
MaxCallArgs == 2

IntType == VariableType("Int")
Local(name) == VarRef(VariableRef(name))
\* let name = name + 1;
Count(name) ==
    LetStatement(VariableRef(name), BinaryExpr(Local(name), "+", IntConst(1)))
\* var int <stem>1, ..., <stem>n;   (nothing for n = 0)
Decl(stem, n) ==
    IF n = 0 THEN <<>>
    ELSE <<VarDecl([i \in 1..n |-> Variable(stem \o ToString(i), IntType)])>>

\* while (x > 0) { let x = x - 1; let n = n + 1; <inner> }
CountDown(inner) ==
    WhileStatement(BinaryExpr(Local("x"), ">", IntConst(0)),
                   <<LetStatement(VariableRef("x"),
                                  BinaryExpr(Local("x"), "-", IntConst(1))),
                     Count("n")>> \o inner)

Conditions ==
    {"x", "true", "false", "x = 0", "~x", "x & 1"}
Condition(c) ==
    CASE c = "x"     -> Local("x")
      [] c = "true"  -> KeywordConst("true")
      [] c = "false" -> KeywordConst("false")
      [] c = "x = 0" -> BinaryExpr(Local("x"), "=", IntConst(0))
      [] c = "~x"    -> UnaryExpr("~", Local("x"))
      [] c = "x & 1" -> BracketedExpr(BinaryExpr(Local("x"), "&", IntConst(1)))

ControlShapes == {"if", "if else", "while", "while if", "if while", "if if"}
\* function void main() { var int x, n, t, e, d; let x = init; <shape>; let d = d + 1; return; }
ControlBody(shape, c) ==
    CASE shape = "if" -> <<IfStatement(Condition(c), <<Count("t")>>)>>
      [] shape = "if else" ->
            <<IfElseStatement(Condition(c), <<Count("t")>>, <<Count("e")>>)>>
      [] shape = "while" -> <<CountDown(<<>>)>>
      [] shape = "while if" ->
            <<CountDown(<<IfElseStatement(Condition(c), <<Count("t")>>, <<Count("e")>>)>>)>>
      [] shape = "if while" ->
            <<IfElseStatement(Condition(c), <<Count("t"), CountDown(<<>>)>>,
                              <<CountDown(<<>>), Count("e")>>)>>
      [] shape = "if if" ->
            <<IfElseStatement(Condition(c),
                              <<Count("t"), IfStatement(Local("x"), <<Count("n")>>)>>,
                              <<IfStatement(Local("x"), <<Count("n")>>), Count("e")>>)>>

ControlClass(shape, init, c) ==
    Class("Main", <<>>,
          <<Subroutine("Function", "main", <<>>,
               <<VarDecl(<<Variable("x", IntType), Variable("n", IntType),
                           Variable("t", IntType), Variable("e", IntType),
                           Variable("d", IntType)>>),
                 LetStatement(VariableRef("x"), IntConst(init))>>
               \o ControlBody(shape, c)
               \o <<Count("d"), ReturnVoid>>)>>)

\* two subroutines with var declarations at the top of the body and inside
\* while, if and else bodies
DeclsClass(top, in_while, in_if, in_else, second) ==
    Class("Main", <<>>,
          <<Subroutine("Function", "first", <<Variable("a", IntType)>>,
               Decl("p", top)
               \o <<WhileStatement(KeywordConst("false"),
                       Decl("q", in_while)
                       \o <<IfElseStatement(KeywordConst("true"),
                                            Decl("r", in_if), Decl("s", in_else))>>),
                    ReturnVoid>>),
            Subroutine("Function", "second", <<>>,
               <<IfStatement(KeywordConst("true"), Decl("p", second)), ReturnVoid>>)>>)

\* most field variables of a class of the inputs
MaxFields == 2

\* the first n of the arguments 1, 2, 3, ...
CallArguments(n) == [k \in 1..n |-> IntConst(k)]

CallTargets == {"local", "argument", "class", "none"}
CallForms == {"do", "let"}
\* the call of the inputs: on a local variable of class Square, on an argument
\* of class Square, on the class Screen, or without a target
TheCall(target, n) ==
    CASE target = "local"    -> TargetCall("square", "draw", CallArguments(n))
      [] target = "argument" -> TargetCall("shape", "draw", CallArguments(n))
      [] target = "class"    -> TargetCall("Screen", "draw", CallArguments(n))
      [] target = "none"     -> SubroutineCall("draw", CallArguments(n))

\* class Main { method void run(int size, Square shape) {
\*    var int r; var Square square;
\*    do <call>;   or   let r = <call>;
\*    return; } }
CallClass(target, form, n) ==
    Class("Main", <<>>,
          <<Subroutine("Method", "run",
               <<Variable("size", IntType), Variable("shape", ClassName("Square"))>>,
               <<VarDecl(<<Variable("r", IntType)>>),
                 VarDecl(<<Variable("square", ClassName("Square"))>>),
                 IF form = "do" THEN DoStatement(TheCall(target, n))
                 ELSE LetStatement(VariableRef("r"), CallExpr(TheCall(target, n))),
                 ReturnVoid>>)>>)

SubroutineTypes == {"Constructor", "Method", "Function"}
\* class Point { field int f1, ..., fF; static int s1, ..., sS;
\*    <kind> ... make() { return; } }
PrologueClass(kind, fields, statics) ==
    Class("Point",
          [i \in 1..fields |-> ClassVariable("Field", IntType, "f" \o ToString(i))]
          \o [i \in 1..statics |-> ClassVariable("Static", IntType, "s" \o ToString(i))],
          <<Subroutine(kind, "make", <<>>, <<ReturnVoid>>)>>)

ArrayIndices == {"2", "i"}
ArrayValues == {"3", "i", "b[1]", "a[i]"}
ArrayExpr(e) ==
    CASE e = "2"    -> IntConst(2)
      [] e = "3"    -> IntConst(3)
      [] e = "i"    -> Local("i")
      [] e = "b[1]" -> VarRef(VariableRefIndexed("b", IntConst(1)))
      [] e = "a[i]" -> VarRef(VariableRefIndexed("a", Local("i")))
\* class Main { function void fill() { var Array a, b; var int i;
\*    let i = 1; let a[<index>] = <value>; return; } }
ArrayClass(index, value) ==
    Class("Main", <<>>,
          <<Subroutine("Function", "fill", <<>>,
               <<VarDecl(<<Variable("a", VariableType("Array")),
                           Variable("b", VariableType("Array"))>>),
                 VarDecl(<<Variable("i", IntType)>>),
                 LetStatement(VariableRef("i"), IntConst(1)),
                 LetStatement(VariableRefIndexed("a", ArrayExpr(index)),
                              ArrayExpr(value)),
                 ReturnVoid>>)>>)

\* function void <name>() { var int x, n, t, e, d; let x = 1; <shape>; return; }
ControlSubroutine(name, shape) ==
    Subroutine("Function", name, <<>>,
       <<VarDecl(<<Variable("x", IntType), Variable("n", IntType),
                   Variable("t", IntType), Variable("e", IntType),
                   Variable("d", IntType)>>),
         LetStatement(VariableRef("x"), IntConst(1))>>
       \o ControlBody(shape, "x")
       \o <<ReturnVoid>>)
\* two subroutines with while and if constructs, nested and in sequence
LabelsClass(first, second) ==
    Class("Main", <<>>,
          <<ControlSubroutine("head", first), ControlSubroutine("tail", second)>>)

RefNames == {"q", "b", "f", "s", "p", "a", "z"}
RefPlaces == {"target", "value", "argument"}
\* class Main { field int f; static int s;
\*    function void first(int a) { var int p; return; }
\*    function void lookup(int b) { var int q; <statement naming the identifier>; return; } }
RefsClass(name, place) ==
    Class("Main",
          <<ClassVariable("Field", IntType, "f"), ClassVariable("Static", IntType, "s")>>,
          <<Subroutine("Function", "first", <<Variable("a", IntType)>>,
               <<VarDecl(<<Variable("p", IntType)>>), ReturnVoid>>),
            Subroutine("Function", "lookup", <<Variable("b", IntType)>>,
               <<VarDecl(<<Variable("q", IntType)>>),
                 CASE place = "target" -> LetStatement(VariableRef(name), IntConst(1))
                   [] place = "value"  -> LetStatement(VariableRef("q"), Local(name))
                   [] place = "argument" ->
                         DoStatement(TargetCall("Output", "printInt", <<Local(name)>>)),
                 ReturnVoid>>)>>)

CompOnly == UNCHANGED <<asmVars, trVars, cpuVars, jackVars, symVars, stageVars>>

\* compile_class(&class): Ok(lines), Err(MissingVariable) or a panic
CompileClass ==
    /\ comp_pc = "parsed"
    /\ LET result == compile_class(class) IN
          /\ vm_code' = result.out
          /\ comp_err' = result.err
          /\ comp_pc' = IF result.ok THEN "compiled"
                        ELSE IF result = Panic THEN "panicked" ELSE "failed"
    /\ vm_ip' = 1
    /\ vm_memory' = VmMemoryStart
    /\ UNCHANGED <<class, vm_trace>>
    /\ CompOnly

\* the VM executes line vm_ip of the compiled class
VmStep ==
    /\ comp_pc = "compiled"
    /\ vm_ip \in 1..Len(vm_code)
    /\ VmExecutes(vm_code[vm_ip], vm_memory)
    /\ vm_memory' = VmMemoryAfter(vm_code[vm_ip], vm_memory)
    /\ vm_ip' = VmLineAfter(vm_code, vm_ip, vm_memory)
    /\ vm_trace' = IF vm_code[vm_ip].op \in {"label", "if-goto"}
                   THEN Append(vm_trace, VmEvent(vm_code[vm_ip], vm_memory))
                   ELSE vm_trace
    /\ comp_pc' = IF vm_code[vm_ip].op = "return" THEN "halted" ELSE comp_pc
    /\ UNCHANGED <<class, vm_code, comp_err>>
    /\ CompOnly

\* deepest stack followed
MaxDepth == 6

\* what a line takes from the stack and what it leaves on it; `call f n`
\* takes the n arguments and leaves the returned value
Consumed(line) ==
    CASE line.op \in {"pop", "if-goto", "return"} \cup VmUnaryOps -> 1
      [] line.op \in VmBinaryOps -> 2
      [] line.op = "call" -> line.num
      [] OTHER -> 0
Produced(line) ==
    IF line.op \in {"push", "call"} \cup VmUnaryOps \cup VmBinaryOps THEN 1 ELSE 0

\* the lines that can be executed after line ip: an if-goto goes both ways
LinesAfter(code, ip) ==
    CASE code[ip].op = "goto" -> {LabelLine(code, code[ip].name)}
      [] code[ip].op = "if-goto" -> {LabelLine(code, code[ip].name), ip + 1}
      [] OTHER -> {ip + 1}

\* one line of the compiled class executed with the values left open: every
\* path through every subroutine is followed, each function entered on an
\* empty stack
WalkStep ==
    /\ comp_pc = "compiled"
    /\ vm_ip \in 1..Len(vm_code)
    /\ LET line == vm_code[vm_ip]
           depth == Len(vm_memory.stack)
       IN  /\ Consumed(line) <= depth
           /\ depth <= MaxDepth
           /\ vm_memory' =
                 [vm_memory EXCEPT !.stack =
                     IF line.op = "function" THEN <<>>
                     ELSE [i \in 1..(depth - Consumed(line) + Produced(line)) |-> 0]]
    /\ vm_ip' \in LinesAfter(vm_code, vm_ip)
    /\ comp_pc' = IF vm_ip' > Len(vm_code) THEN "halted" ELSE comp_pc
    /\ UNCHANGED <<class, vm_code, vm_trace, comp_err>>
    /\ CompOnly

InitComp ==
    /\ \/ \E shape \in ControlShapes, init \in 0..MaxIter, c \in Conditions :
             class = ControlClass(shape, init, c)
       \/ \E top \in 0..MaxDecls, in_while, in_if, in_else \in 0..1,
             second \in 0..MaxDecls :
             class = DeclsClass(top, in_while, in_if, in_else, second)
       \/ \E target \in CallTargets, form \in CallForms, n \in 0..MaxCallArgs :
             class = CallClass(target, form, n)
       \/ \E kind \in SubroutineTypes, fields \in 0..MaxFields, statics \in 0..1 :
             class = PrologueClass(kind, fields, statics)
       \/ \E index \in ArrayIndices, value \in ArrayValues :
             class = ArrayClass(index, value)
       \/ \E first \in ControlShapes, second \in ControlShapes :
             class = LabelsClass(first, second)
       \/ \E name \in RefNames, place \in RefPlaces :
             class = RefsClass(name, place)
    /\ vm_code = <<>> /\ comp_pc = "parsed"
    /\ vm_ip = 0 /\ vm_memory = <<>> /\ vm_trace = <<>> /\ comp_err = ""
    /\ AsmIdle /\ TrIdle /\ CpuIdle /\ JackIdle /\ SymIdle /\ StageIdle

NextComp ==
    \/ CompileClass
    \/ VmStep

SpecComp == InitComp /\ [][NextComp]_vars

NextWalk ==
    \/ CompileClass
    \/ WalkStep

SpecWalk == InitComp /\ [][NextWalk]_vars

-----------------------------------------------------------------------------
(* The three programs from the path they are given to the files they leave: *)
(* process_sources of src/compiler/src/main.rs, parse_and_convert_vm of     *)
(* src/vm-translator/src/main.rs, parse_and_convert_file of                 *)
(* src/assembler/src/main.rs.  fs::write is taken to succeed.               *)

\* most files of a directory
MaxFiles == 2

\* a file at the path: fs::read_to_string fails on an "unreadable" one, the
\* program's parser fails on a "malformed" one and yields content on a "good" one
SourceFile(stem, state, content) == [stem |-> stem, state |-> state, content |-> content]

\* PathBuf::set_extension on the file called stem
set_extension(stem, extension) == stem \o "." \o extension

\* a file written: its name is the input's with the extension replaced
Written(stem, extension, content) ==
    [file_name |-> set_extension(stem, extension), extension |-> extension,
     content |-> content]

\* the place of the first file that cannot be read (0 if all can)
FirstUnreadable(files) ==
    IF \E i \in DOMAIN files : files[i].state = "unreadable"
    THEN CHOOSE i \in DOMAIN files :
            /\ files[i].state = "unreadable"
            /\ \A j \in 1..(i - 1) : files[j].state # "unreadable"
    ELSE 0
\* the place of the first file the parser rejects (0 if none)
FirstMalformed(files) ==
    IF \E i \in DOMAIN files : files[i].state = "malformed"
    THEN CHOOSE i \in DOMAIN files :
            /\ files[i].state = "malformed"
            /\ \A j \in 1..(i - 1) : files[j].state # "malformed"
    ELSE 0

RECURSIVE compiler_translate_ast(_)
\* compiler::translate_ast: for compiled_class in &ast.classes { compile_class(..)? },
\* the outputs of all classes or the first error
compiler_translate_ast(files) ==
    IF files = <<>> THEN [ok |-> TRUE, out |-> <<>>, err |-> ""]
    ELSE With(compile_class(Head(files).content), LAMBDA first :
            IF ~first.ok THEN [ok |-> FALSE, out |-> <<>>, err |-> first.err]
            ELSE With(compiler_translate_ast(Tail(files)), LAMBDA rest :
                    IF ~rest.ok THEN rest
                    ELSE [ok |-> TRUE,
                          out |-> <<[source_filename |-> Head(files).stem,
                                     vm_code |-> first.out]>> \o rest.out,
                          err |-> ""]))

\* the <class>.json files of --ast_output (the text of a dump is left out)
json_files(files) ==
    [i \in DOMAIN files |-> Written(files[i].stem, "json", <<>>)]

\* the <class>.vm files
vm_output_files(vm_output) ==
    [i \in DOMAIN vm_output |->
        Written(vm_output[i].source_filename, "vm", vm_output[i].vm_code)]

\* process_sources: every file is read, then every file is parsed, then the
\* dumps are written if asked for, then every class is compiled, then the
\* .vm files are written
ProcessSources ==
    /\ stage = "compiler" /\ exit = "running"
    /\ IF FirstUnreadable(inputs) # 0
       THEN exit' = "FileError" /\ disk' = disk
       ELSE IF FirstMalformed(inputs) # 0
       THEN exit' = "ParsingError" /\ disk' = disk
       ELSE LET dumps == IF options.side THEN json_files(inputs) ELSE <<>>
                vm_output == compiler_translate_ast(inputs)
            IN  IF ~vm_output.ok
                THEN /\ exit' = IF vm_output.err = Panic.err THEN "panic"
                                ELSE "CompilationError"
                     /\ disk' = disk \o dumps
                ELSE /\ exit' = "Ok"
                     /\ disk' = disk \o dumps \o vm_output_files(vm_output.out)
    /\ UNCHANGED <<stage, inputs, options>>
    /\ UNCHANGED <<asmVars, trVars, cpuVars, jackVars, symVars, compVars>>

RECURSIVE convert_files(_, _)
\* the loop over the .vm files of a directory: each file is read, parsed and
\* translated before the next one is read
convert_files(files, out) ==
    IF files = <<>> THEN [ok |-> TRUE, asm |-> out, err |-> ""]
    ELSE LET file == Head(files) IN
         IF file.state = "unreadable" THEN [ok |-> FALSE, asm |-> <<>>, err |-> "FileError"]
         ELSE IF file.state = "malformed"
         THEN [ok |-> FALSE, asm |-> <<>>, err |-> "ParsingError"]
         ELSE With(translate_ast(file.content, set_extension(file.stem, "vm")), LAMBDA asm :
                 IF ~asm.ok THEN [ok |-> FALSE, asm |-> <<>>, err |-> "TranslationError"]
                 ELSE convert_files(Tail(files), out \o asm.asm))

\* parse_and_convert_vm: one file, or the bootstrap and every .vm file of the
\* directory; the only fs::write is the last statement of either branch
ParseAndConvertVm ==
    /\ stage = "translator" /\ exit = "running"
    /\ LET asm == IF options.dir THEN convert_files(inputs, Bootstrap)
                  ELSE convert_files(inputs, <<>>)
       IN  /\ exit' = IF asm.ok THEN "Ok" ELSE asm.err
           /\ disk' = IF asm.ok
                      THEN Append(disk, Written(options.path, "asm", asm.asm))
                      ELSE disk
    /\ UNCHANGED <<stage, inputs, options>>
    /\ UNCHANGED <<asmVars, trVars, cpuVars, jackVars, symVars, compVars>>

\* the passes of parse_and_convert_file on the parsed lines
assemble(parsed) ==
    With(remove_all_labels(SelectSeq(parsed, IsNotEmpty)), LAMBDA instructions :
        interpret_ast(instructions,
            find_variables(instructions,
                find_labels(SelectSeq(parsed, IsNotEmpty), create_symbol_table))))

\* parse_and_convert_file: the file is read and parsed, the symbol file is
\* saved if asked for, then the passes run and the .hack file is written; a
\* panic of interpret_ast ends the program before that write
ParseAndConvertFile ==
    /\ stage = "assembler" /\ exit = "running"
    /\ LET file == inputs[1]
           symbol_file == IF options.side
                          THEN <<Written(file.stem, "symbol", <<>>)>>
                          ELSE <<>>
       IN  IF file.state = "unreadable"
           THEN exit' = "FileError" /\ disk' = disk
           ELSE IF file.state = "malformed"
           THEN exit' = "ParsingError" /\ disk' = disk
           ELSE LET words == assemble(file.content) IN
                IF \E i \in DOMAIN words : words[i] = -1
                THEN exit' = "panic" /\ disk' = disk \o symbol_file
                ELSE /\ exit' = "Ok"
                     /\ disk' = disk \o symbol_file
                             \o <<Written(file.stem, "hack", words)>>
    /\ UNCHANGED <<stage, inputs, options>>
    /\ UNCHANGED <<asmVars, trVars, cpuVars, jackVars, symVars, compVars>>

\* file_path.extension() == "vm"
IsVmFile(file) == file.extension = "vm"

\* the directory listing of the translator finds the .vm files the compiler
\* wrote and parses them: the lines of a compiled class are VM commands
ReadDirectory ==
    /\ stage = "compiler" /\ exit = "Ok" /\ tr_pc = "idle"
    /\ LET found == SelectSeq(disk, IsVmFile) IN
          vm_files' = [i \in DOMAIN found |->
                          [name |-> found[i].file_name, ast |-> found[i].content]]
    /\ is_dir' = TRUE
    /\ tr_pc' = "parsed"
    /\ UNCHANGED <<final_assembly, tr_result>>
    /\ UNCHANGED <<asmVars, cpuVars, jackVars, symVars, compVars, stageVars>>

\* Jack files: a class that compiles, one naming an undeclared variable, one
\* with an array assignment
StageClasses ==
    { SourceFile(stem, "good", class_) :
        stem \in {"Main", "Other"},
        class_ \in {LabelsClass("if", "while"), RefsClass("z", "value"),
                    ArrayClass("2", "3")} }
\* .vm files: `pop constant 0` is refused by translate_ast
StageVmFiles ==
    { SourceFile(stem, "good", ast) :
        stem \in {"Main", "Other"},
        ast \in {<<VmPush("constant", 7)>>, <<VmPush("constant", 7), VmPop("constant", 0)>>} }
\* .asm files
StageAsmFiles ==
    { SourceFile("Prog", "good", parsed) :
        parsed \in {<<>>, <<At("i"), LabelStmt("LOOP"), EmptyStmt, At("LOOP"), J("0", "JMP")>>,
                    <<AtN(2), C("D", "A"), At("END"), LabelStmt("END")>>} }
\* files that cannot be read or parsed
BrokenFiles ==
    { SourceFile(stem, state, <<>>) :
        stem \in {"Main", "Other"}, state \in {"unreadable", "malformed"} }

\* the sequences of 1 .. MaxFiles files with different names
Directories(files) ==
    { dir \in SeqsUpTo(files, MaxFiles) :
        /\ dir # <<>>
        /\ \A i, j \in DOMAIN dir : dir[i].stem = dir[j].stem => i = j }

InitStage ==
    /\ \/ /\ stage = "compiler"
          /\ inputs \in Directories(StageClasses \cup BrokenFiles)
          /\ \E side \in BOOLEAN : options = [path |-> "prog", dir |-> Len(inputs) > 1, side |-> side]
       \/ /\ stage = "translator"
          /\ inputs \in Directories(StageVmFiles \cup BrokenFiles)
          /\ \E dir \in BOOLEAN :
                /\ ~dir => Len(inputs) = 1
                /\ options = [path |-> IF dir THEN "prog" ELSE inputs[1].stem,
                              dir |-> dir, side |-> FALSE]
       \/ /\ stage = "assembler"
          /\ \E file \in StageAsmFiles \cup BrokenFiles : inputs = <<file>>
          /\ \E side \in BOOLEAN : options = [path |-> inputs[1].stem, dir |-> FALSE, side |-> side]
    /\ disk = <<>> /\ exit = "running"
    /\ AsmIdle /\ TrIdle /\ CpuIdle /\ JackIdle /\ SymIdle /\ CompIdle

NextStage ==
    \/ ProcessSources
    \/ ParseAndConvertVm
    \/ ParseAndConvertFile

SpecStage == InitStage /\ [][NextStage]_vars

\* class <class_name> { function void <name>() { ...; <shape>; ...; return; } }
BranchClass(class_name, name, shape) ==
    Class(class_name, <<>>, <<ControlSubroutine(name, shape)>>)

\* a directory of two classes, each with one function holding if and while
\* statements
InitChain ==
    /\ stage = "compiler"
    /\ \E first, second \in {"run", "draw"}, a, b \in ControlShapes :
          inputs = <<SourceFile("Main", "good", BranchClass("Main", first, a)),
                     SourceFile("Other", "good", BranchClass("Other", second, b))>>
    /\ options = [path |-> "prog", dir |-> TRUE, side |-> FALSE]
    /\ disk = <<>> /\ exit = "running"
    /\ AsmIdle /\ TrIdle /\ CpuIdle /\ JackIdle /\ SymIdle /\ CompIdle

NextChain ==
    \/ ProcessSources
    \/ ReadDirectory
    \/ TranslateDirectory
    \/ ReadAssembly
    \/ RemoveEmpty
    \/ FindLabels

SpecChain == InitChain /\ [][NextChain]_vars

-----------------------------------------------------------------------------
(* Properties of the emitted code and of its run *)

Emitted == comp_pc \in {"compiled", "halted"}

IsFunctionLine(line) == line.op = "function"
FunctionLines == SelectSeq(vm_code, IsFunctionLine)

RECURSIVE VarNames(_)
\* the number of names declared by var in the statements and their bodies
VarNames(stmts) ==
    IF stmts = <<>> THEN 0
    ELSE LET statement == Head(stmts) IN
         (CASE statement.tag = "VarDecl" -> Len(statement.variables)
            [] statement.tag = "While" -> VarNames(statement.body)
            [] statement.tag = "If" ->
                  VarNames(statement.if_body) + VarNames(statement.else_body)
            [] OTHER -> 0)
         + VarNames(Tail(stmts))

\* C13: the function lines of the emitted code are, in source order, one
\* `function <Class>.<name> N` per subroutine of the class, N being the
\* number of names declared by var anywhere in the body of that subroutine
\* (nested while, if and else bodies included) whatever was compiled before.
C13_FunctionLines ==
    Emitted =>
        /\ Len(FunctionLines) = Len(class.subroutines)
        /\ \A i \in 1..Len(class.subroutines) :
              FunctionLines[i]
                 = VmFunction(class.identifier \o "." \o class.subroutines[i].identifier,
                              VarNames(class.subroutines[i].statements))

\* a subroutine with declarations in every kind of body, followed by one
\* with a single declaration
C13_Witness ==
    /\ Emitted
    /\ Len(class.subroutines) = 2
    /\ VarNames(class.subroutines[1].statements) = 4
    /\ FunctionLines[1].text = "function Main.first 4"
    /\ FunctionLines[2].text = "function Main.second 1"

\* the classes made by ControlClass: main with the locals x, n, t, e, d
IsControl == class.subroutines[1].identifier = "main"
ControlStatement == class.subroutines[1].statements[3]
LocalValue(k) == vm_memory.local[k + 1]

\* the lines of `let <local k> = <local k> + 1;`
CountCode(k) ==
    <<VmPush("local", k), VmPush("constant", 1), VmOp("add"), VmPop("local", k)>>

LinesOf(line) == {i \in 1..Len(vm_code) : vm_code[i] = line}
LineOf(line) == CHOOSE i \in LinesOf(line) : TRUE
Once(line) == Cardinality(LinesOf(line)) = 1

\* the if-goto events of a label in the run so far, by the value popped
Taken(name) ==
    {j \in 1..Len(vm_trace) : /\ vm_trace[j].op = "if-goto" /\ vm_trace[j].name = name
                              /\ vm_trace[j].value # 0}
NotTaken(name) ==
    {j \in 1..Len(vm_trace) : /\ vm_trace[j].op = "if-goto" /\ vm_trace[j].name = name
                              /\ vm_trace[j].value = 0}

\* the first if statement compiled in main, when there is one
IfStem == "main.if.0"
HasIf == Emitted /\ IsControl /\ LinesOf(VmIfGoto(IfStem \o ".if_body")) # {}
OuterIf ==
    IF ControlStatement.tag = "If" THEN ControlStatement ELSE ControlStatement.body[3]

\* the events of the if statement in the run so far
IfEvents ==
    LET OfIf(ev) == ev.name \in {IfStem \o ".if_body", IfStem \o ".if_end"}
    IN  SelectSeq(vm_trace, OfIf)

\* C16: an if statement is emitted as condition, if-goto stem.if_body, the
\* else body (or nothing), goto stem.if_end, label stem.if_body, the then
\* body, label stem.if_end; in the run the then body is executed exactly
\* when the condition left a value other than 0 (true is -1) and the else
\* body exactly when it left 0, and either way the run goes on at
\* stem.if_end.
C16_If ==
    HasIf =>
        LET if_goto == LineOf(VmIfGoto(IfStem \o ".if_body"))
            goto_end == LineOf(VmGoto(IfStem \o ".if_end"))
            if_body == LineOf(VmLabel(IfStem \o ".if_body"))
            if_end == LineOf(VmLabel(IfStem \o ".if_end"))
            events == IfEvents
        IN  /\ Once(VmIfGoto(IfStem \o ".if_body")) /\ Once(VmGoto(IfStem \o ".if_end"))
            /\ Once(VmLabel(IfStem \o ".if_body")) /\ Once(VmLabel(IfStem \o ".if_end"))
            /\ if_goto < goto_end /\ if_body = goto_end + 1 /\ if_body < if_end
            \* the bodies: else between if-goto and goto, then between the labels
            /\ SubSeq(vm_code, if_body + 1, if_body + 4) = CountCode(2)
            /\ OuterIf.has_else => SubSeq(vm_code, goto_end - 4, goto_end - 1) = CountCode(3)
            /\ ~OuterIf.has_else => goto_end = if_goto + 1
            /\ OuterIf.condition = KeywordConst("true") =>
                  SubSeq(vm_code, if_goto - 2, if_goto - 1)
                     = <<VmPush("constant", 1), VmOp("neg")>>
            \* the run: after each if-goto the label of the branch the value chose
            /\ \A j \in 1..Len(events) :
                  /\ (events[j].op = "if-goto" /\ j < Len(events)) =>
                        events[j + 1]
                           = IF events[j].value # 0
                             THEN VmEvent(VmLabel(IfStem \o ".if_body"), vm_memory)
                             ELSE VmEvent(VmLabel(IfStem \o ".if_end"), vm_memory)
                  /\ events[j].name = IfStem \o ".if_body" /\ events[j].op = "label" =>
                        /\ j > 1 /\ events[j - 1].op = "if-goto"
                        /\ j < Len(events) =>
                              events[j + 1] = VmEvent(VmLabel(IfStem \o ".if_end"), vm_memory)
            /\ comp_pc = "halted" =>
                  /\ LocalValue(2) = Cardinality(Taken(IfStem \o ".if_body"))
                  /\ LocalValue(3) = IF OuterIf.has_else
                                     THEN Cardinality(NotTaken(IfStem \o ".if_body"))
                                     ELSE 0
                  /\ LocalValue(4) = 1
                  /\ events # <<>> =>
                        events[Len(events)] = VmEvent(VmLabel(IfStem \o ".if_end"), vm_memory)
                  /\ (ControlStatement.tag = "If" /\ OuterIf.condition = KeywordConst("true"))
                        => LocalValue(2) = 1 /\ LocalValue(3) = 0
                  /\ (ControlStatement.tag = "If" /\ OuterIf.condition = KeywordConst("false"))
                        => LocalValue(2) = 0

\* if (x) with x = 2 ran its then body and not its else body
C16_Witness ==
    /\ HasIf /\ comp_pc = "halted"
    /\ ControlStatement.tag = "If" /\ OuterIf.has_else
    /\ OuterIf.condition = Local("x")
    /\ \E j \in Taken(IfStem \o ".if_body") : vm_trace[j].value = 2
    /\ LocalValue(2) = 1 /\ LocalValue(3) = 0

\* the while statements compiled in main
WhileStems ==
    {stem \in {"main.while." \o ToString(k) : k \in 0..1} :
        LinesOf(VmLabel(stem \o ".condition")) # {}}
HasWhile == Emitted /\ IsControl /\ WhileStems # {}

\* the events of a while statement in the run so far
WhileEvents(stem) ==
    LET OfWhile(ev) ==
            ev.name \in {stem \o ".condition", stem \o ".while_body", stem \o ".while_end"}
    IN  SelectSeq(vm_trace, OfWhile)

\* the lines of `x > 0` and of `let x = x - 1;`
ConditionCode == <<VmPush("local", 0), VmPush("constant", 0), VmOp("gt")>>
StepCode ==
    <<VmPush("local", 0), VmPush("constant", 1), VmOp("sub"), VmPop("local", 0)>>

\* C17: a while statement is emitted as label stem.condition, condition,
\* if-goto stem.while_body, goto stem.while_end, label stem.while_body, body,
\* goto stem.condition, label stem.while_end; in the run the condition is
\* evaluated before every iteration, the body is executed once for each
\* evaluation that leaves a value other than 0, and the first evaluation
\* that leaves 0 takes the run to stem.while_end.
C17_While ==
    HasWhile =>
        /\ \A stem \in WhileStems :
              LET condition == LineOf(VmLabel(stem \o ".condition"))
                  if_goto == LineOf(VmIfGoto(stem \o ".while_body"))
                  while_body == LineOf(VmLabel(stem \o ".while_body"))
                  again == LineOf(VmGoto(stem \o ".condition"))
                  events == WhileEvents(stem)
                  Passed(name) == VmEvent(VmLabel(stem \o name), vm_memory)
              IN  /\ Once(VmLabel(stem \o ".condition"))
                  /\ Once(VmIfGoto(stem \o ".while_body"))
                  /\ Once(VmGoto(stem \o ".while_end"))
                  /\ Once(VmLabel(stem \o ".while_body"))
                  /\ Once(VmGoto(stem \o ".condition"))
                  /\ Once(VmLabel(stem \o ".while_end"))
                  /\ SubSeq(vm_code, condition + 1, if_goto - 1) = ConditionCode
                  /\ vm_code[if_goto + 1] = VmGoto(stem \o ".while_end")
                  /\ while_body = if_goto + 2
                  /\ SubSeq(vm_code, while_body + 1, while_body + 8)
                        = StepCode \o CountCode(1)
                  /\ while_body < again
                  /\ vm_code[again + 1] = VmLabel(stem \o ".while_end")
                  \* the run
                  /\ events # <<>> => events[1] = Passed(".condition")
                  /\ \A j \in 1..(Len(events) - 1) :
                        events[j + 1]
                           = CASE events[j] = Passed(".condition") ->
                                     [op |-> "if-goto", name |-> stem \o ".while_body",
                                      value |-> events[j + 1].value]
                               [] events[j].op = "if-goto" /\ events[j].value # 0 ->
                                     Passed(".while_body")
                               [] events[j].op = "if-goto" /\ events[j].value = 0 ->
                                     Passed(".while_end")
                               [] events[j] = Passed(".while_body") -> Passed(".condition")
                               [] events[j] = Passed(".while_end") -> Passed(".condition")
                  /\ (comp_pc = "halted" /\ events # <<>>) =>
                        /\ events[Len(events)] = Passed(".while_end")
                        /\ Cardinality(NotTaken(stem \o ".while_body")) = 1
        /\ comp_pc = "halted" =>
              LET evaluations ==
                      UNION {Taken(stem \o ".while_body") : stem \in WhileStems}
              IN  /\ LocalValue(1) = Cardinality(evaluations)
                  /\ LocalValue(0) = 0
                  /\ LocalValue(4) = 1
                  /\ ControlStatement.tag = "While" =>
                        LocalValue(1) = class.subroutines[1].statements[2].expression.val

\* a loop ran its body twice and left at the third evaluation
C17_Witness ==
    /\ HasWhile /\ comp_pc = "halted"
    /\ ControlStatement.tag = "While"
    /\ Cardinality(Taken("main.while.0.while_body")) = 2
    /\ Len(WhileEvents("main.while.0")) = 9
    /\ LocalValue(1) = 2

-----------------------------------------------------------------------------
(* Calls *)

\* the classes made by CallClass: the method run, whose third statement
\* holds the call
IsCalls == class.subroutines[1].identifier = "run"
CalledCall ==
    LET statement == class.subroutines[1].statements[3] IN
    IF statement.tag = "Do" THEN statement.call ELSE statement.expression.call

\* the symbol table while the statements of the first subroutine are compiled
BodyTable ==
    find_var_decls(class.subroutines[1].statements,
                   add_arguments(class.subroutines[1].parameters,
                                 create_scope(SymbolTable_new)))

\* the parameters and var names of the first subroutine, as declared
DeclaredVariables ==
    LET IsDecl(statement) == statement.tag = "VarDecl"
        decls == SelectSeq(class.subroutines[1].statements, IsDecl)
    IN  {class.subroutines[1].parameters[i] :
            i \in 1..Len(class.subroutines[1].parameters)}
        \cup UNION {{decls[i].variables[j] : j \in 1..Len(decls[i].variables)} :
                       i \in 1..Len(decls)}
\* the class a declared variable is of
ClassOf(name) ==
    (CHOOSE variable \in DeclaredVariables : variable.identifier = name).var_type.name

\* the lines of the arguments of the inputs, which are integer constants
ArgumentLines(call) ==
    [k \in 1..Len(call.parameters) |-> VmPush("constant", call.parameters[k].val)]

\* the lines between the function line and the end of the call statement
CallLines == SubSeq(vm_code, 2, Len(vm_code) - 3)

\* C14: a call whose target resolves in the symbol table to a variable v is
\* emitted as `push <v.seg> <v.idx>`, the arguments left to right and
\* `call <v.type>.<name> <nargs+1>`; a call whose target does not resolve as
\* the arguments and `call <target>.<name> <nargs>`; a call without a target
\* as `push pointer 0`, the arguments and `call <CurrentClass>.<name> <nargs+1>`.
C14_CallResolution ==
    Emitted /\ IsCalls =>
        LET call == CalledCall
            nargs == Len(call.parameters)
            v == find_variable(BodyTable, call.target_name)
        IN  CallLines =
               IF ~call.has_target
               THEN <<VmPush("pointer", 0)>> \o ArgumentLines(call)
                    \o <<VmCall(class.identifier \o "." \o call.subroutine_name,
                                nargs + 1)>>
               ELSE IF v # NoVariable
               THEN <<VmPush(ScopeSegment(v.scope), v.index)>> \o ArgumentLines(call)
                    \o <<VmCall(ClassOf(call.target_name) \o "." \o call.subroutine_name,
                                nargs + 1)>>
               ELSE ArgumentLines(call)
                    \o <<VmCall(call.target_name \o "." \o call.subroutine_name, nargs)>>

-----------------------------------------------------------------------------
(* Subroutine prologues *)

\* the classes made by PrologueClass: one subroutine make() { return; }
IsPrologue == class.subroutines[1].identifier = "make"
\* the number of field variables of the class
FieldCount ==
    Cardinality({i \in 1..Len(class.variables) : class.variables[i].visibility = "Field"})
\* the lines between the function line and the lines of `return;`
PrologueLines == SubSeq(vm_code, 2, Len(vm_code) - 2)

\* C15: directly after its function line a constructor emits `push constant F`,
\* `call Memory.alloc 1`, `pop pointer 0`, F being the number of field (not
\* static) variables of the class; a method emits `push argument 0`,
\* `pop pointer 0`; a function emits nothing before its statements.
C15_Prologue ==
    Emitted /\ IsPrologue =>
        LET kind == class.subroutines[1].subroutine_type IN
        /\ vm_code[1] = VmFunction(class.identifier \o ".make", 0)
        /\ PrologueLines =
              CASE kind = "Constructor" ->
                      <<VmPush("constant", FieldCount), VmCall("Memory.alloc", 1),
                        VmPop("pointer", 0)>>
                [] kind = "Method" -> <<VmPush("argument", 0), VmPop("pointer", 0)>>
                [] kind = "Function" -> <<>>

-----------------------------------------------------------------------------
(* Array assignment *)

\* the classes made by ArrayClass: fill, with a, b, i in local 0, 1, 2 and
\* `let a[index] = value` as its fourth statement
IsArrays == class.subroutines[1].identifier = "fill"
ArrayLet == class.subroutines[1].statements[4]

RECURSIVE ReadLines(_)
\* the lines that evaluate an expression of the inputs: a constant, a local,
\* or an array element name[j], read through pointer 1 and that 0
ReadLines(e) ==
    CASE e.tag = "Int" -> <<VmPush("constant", e.val)>>
      [] e.tag = "VarRef" ->
            LET variable == find_variable(BodyTable, e.var.name) IN
            IF e.var.has_index
            THEN <<VmPush(ScopeSegment(variable.scope), variable.index)>>
                 \o ReadLines(e.var.index)
                 \o <<VmOp("add"), VmPop("pointer", 1), VmPush("that", 0)>>
            ELSE <<VmPush(ScopeSegment(variable.scope), variable.index)>>

RECURSIVE ValueAtEntry(_)
\* the value of an expression of the inputs before the assignment: a, b and
\* the RAM are 0 and i is 1
ValueAtEntry(e) ==
    CASE e.tag = "Int" -> e.val
      [] e.tag = "VarRef" ->
            IF e.var.has_index THEN 0
            ELSE IF e.var.name = "i" THEN 1 ELSE 0

\* the lines of `let i = 1;` come first; those of `return;` last
ArrayLetLines == SubSeq(vm_code, 4, Len(vm_code) - 2)

\* C18: `let a[i] = e` is emitted as `push <a.seg> <a.idx>`, the code of i,
\* `add`, the code of e, `pop temp 0`, `pop pointer 1`, `push temp 0`,
\* `pop that 0`; run on the VM it stores the value of e in the cell a + i,
\* also when e reads array elements itself, and leaves the stack as deep as
\* it was.
C18_ArrayLet ==
    comp_pc # "parsed" /\ IsArrays =>
        LET a == find_variable(BodyTable, ArrayLet.identifier.name) IN
        /\ Emitted
        /\ ArrayLetLines =
              <<VmPush(ScopeSegment(a.scope), a.index)>>
              \o ReadLines(ArrayLet.identifier.index)
              \o <<VmOp("add")>>
              \o ReadLines(ArrayLet.expression)
              \o <<VmPop("temp", 0), VmPop("pointer", 1), VmPush("temp", 0),
                   VmPop("that", 0)>>
        /\ comp_pc = "halted" =>
              /\ vm_memory.ram[LocalValue(a.index)
                               + ValueAtEntry(ArrayLet.identifier.index)]
                    = ValueAtEntry(ArrayLet.expression)
              /\ vm_memory.stack = <<0>>

-----------------------------------------------------------------------------
(* Unresolved identifiers *)

\* the classes made by RefsClass: the second subroutine, lookup, names one
\* identifier in its second statement
IsRefs == Len(class.subroutines) = 2 /\ class.subroutines[2].identifier = "lookup"
RefName ==
    LET statement == class.subroutines[2].statements[2] IN
    CASE statement.tag = "Do" -> statement.call.parameters[1].var.name
      [] statement.tag = "Let" /\ statement.expression.tag = "VarRef" ->
            statement.expression.var.name
      [] OTHER -> statement.identifier.name

\* the parameters and var names of subroutine i, and the fields and statics
\* of the class
SubroutineNames(i) ==
    LET subroutine == class.subroutines[i]
        IsDecl(statement) == statement.tag = "VarDecl"
        decls == SelectSeq(subroutine.statements, IsDecl)
    IN  {subroutine.parameters[k].identifier : k \in 1..Len(subroutine.parameters)}
        \cup UNION {{decls[k].variables[j].identifier : j \in 1..Len(decls[k].variables)} :
                       k \in 1..Len(decls)}
ClassNames == {class.variables[k].identifier : k \in 1..Len(class.variables)}

\* C21: compiling a class fails with MissingVariable{name} exactly when a
\* variable reference or a let target names an identifier that is neither a
\* local or argument of the current subroutine nor a field or static of the
\* class (a name declared only in another subroutine does not resolve), and
\* no VM code is returned when it fails.
C21_Unresolved ==
    comp_pc # "parsed" /\ IsRefs =>
        LET resolves == RefName \in SubroutineNames(2) \cup ClassNames IN
        /\ resolves => Emitted /\ comp_err = ""
        /\ ~resolves => /\ comp_pc = "failed"
                        /\ comp_err = MissingVariable(RefName).err
                        /\ vm_code = <<>>

-----------------------------------------------------------------------------
(* Label stems within a class *)

RECURSIVE Constructs(_, _)
\* the number of statements of a kind ("While" or "If") in a statement list,
\* nested ones included
Constructs(stmts, tag) ==
    IF stmts = <<>> THEN 0
    ELSE LET statement == Head(stmts) IN
         (IF statement.tag = tag THEN 1 ELSE 0)
         + (CASE statement.tag = "While" -> Constructs(statement.body, tag)
              [] statement.tag = "If" ->
                    Constructs(statement.if_body, tag)
                    + Constructs(statement.else_body, tag)
              [] OTHER -> 0)
         + Constructs(Tail(stmts), tag)

RECURSIVE ClassConstructs(_, _)
ClassConstructs(subroutines, tag) ==
    IF subroutines = <<>> THEN 0
    ELSE Constructs(Head(subroutines).statements, tag)
         + ClassConstructs(Tail(subroutines), tag)

LabelLines == {i \in 1..Len(vm_code) : vm_code[i].op = "label"}
JumpLines == {i \in 1..Len(vm_code) : vm_code[i].op \in {"goto", "if-goto"}}
\* the function line that line i of the output belongs to
FunctionOf(i) == MaxOf({k \in 1..i : vm_code[k].op = "function"})

\* C27: every while and every if construct of a class, nested or not and in
\* whatever subroutine, gets a label stem of its own: a while declares three
\* labels and an if two, no label line of the class's output repeats a name,
\* and every goto and if-goto goes to a label declared in its own
\* subroutine.
C27_LabelStems ==
    Emitted =>
        /\ Cardinality(LabelLines)
              = 3 * ClassConstructs(class.subroutines, "While")
                + 2 * ClassConstructs(class.subroutines, "If")
        /\ \A i, j \in LabelLines : vm_code[i].name = vm_code[j].name => i = j
        /\ \A i \in JumpLines :
              \E j \in LabelLines : /\ vm_code[j].name = vm_code[i].name
                                    /\ FunctionOf(j) = FunctionOf(i)

\* both subroutines hold two while loops and one if, and the second loop of
\* the second subroutine is the fourth of the class
C27_Witness ==
    /\ Emitted
    /\ Len(class.subroutines) = 2
    /\ ClassConstructs(class.subroutines, "While") = 4
    /\ ClassConstructs(class.subroutines, "If") = 2
    /\ Cardinality(LabelLines) = 16
    /\ \E i \in LabelLines : vm_code[i].name = "tail.while.3.while_end"
    /\ \E i \in LabelLines : vm_code[i].name = "tail.if.1.if_end"

-----------------------------------------------------------------------------
(* Stack balance *)

RECURSIVE SubExpressions(_)
RECURSIVE ListExpressions(_)
\* an expression and every expression inside it
SubExpressions(e) ==
    <<e>> \o
    CASE e.tag \in {"UnaryExpr", "BracketedExpr"} -> SubExpressions(e.expr)
      [] e.tag = "BinaryExpr" -> SubExpressions(e.lhs) \o SubExpressions(e.rhs)
      [] e.tag = "Call" -> ListExpressions(e.call.parameters)
      [] e.tag = "VarRef" /\ e.var.has_index -> SubExpressions(e.var.index)
      [] OTHER -> <<>>
ListExpressions(es) ==
    IF es = <<>> THEN <<>> ELSE SubExpressions(Head(es)) \o ListExpressions(Tail(es))

RECURSIVE StatementExpressions(_)
\* the expressions of a statement list, nested statements included
StatementExpressions(stmts) ==
    IF stmts = <<>> THEN <<>>
    ELSE LET statement == Head(stmts) IN
         (CASE statement.tag = "Let" ->
                  SubExpressions(statement.expression)
                  \o (IF statement.identifier.has_index
                      THEN SubExpressions(statement.identifier.index) ELSE <<>>)
            [] statement.tag = "While" ->
                  SubExpressions(statement.condition)
                  \o StatementExpressions(statement.body)
            [] statement.tag = "If" ->
                  SubExpressions(statement.condition)
                  \o StatementExpressions(statement.if_body)
                  \o StatementExpressions(statement.else_body)
            [] statement.tag = "Do" -> ListExpressions(statement.call.parameters)
            [] statement.tag = "Return" /\ statement.has_expr ->
                  SubExpressions(statement.expr)
            [] OTHER -> <<>>)
         \o StatementExpressions(Tail(stmts))

RECURSIVE Raised(_)
\* by how much straight-line code raises the stack
Raised(code) ==
    IF code = <<>> THEN 0
    ELSE Produced(Head(code)) - Consumed(Head(code)) + Raised(Tail(code))

\* the context while the statements of the first subroutine are compiled
BodyContext ==
    [CompilationContext_new(class.identifier) EXCEPT
        !.symbol_table = BodyTable,
        !.subroutine_name = class.subroutines[1].identifier]

\* line i begins or follows a statement, or begins a condition: it is the
\* first line of its function, a label or a goto, or the line before it
\* ended a statement (pop), was a jump or a label
AtBoundary(i) ==
    \/ vm_code[i].op \in {"label", "goto"}
    \/ i > 1 /\ vm_code[i - 1].op \in {"pop", "if-goto", "label", "goto", "function"}

Walking == comp_pc = "compiled" /\ vm_ip \in 1..Len(vm_code)

\* C29: with `call f n` taking n values and leaving one, the code of every
\* expression raises the stack by exactly one, the code of every let, do,
\* if and while statement leaves the stack as deep as it found it on every
\* path, and every return is reached with exactly one value above the depth
\* at the entry of the subroutine.
C29_StackBalance ==
    /\ Emitted =>
          LET expressions == StatementExpressions(class.subroutines[1].statements) IN
          \A k \in 1..Len(expressions) :
             LET code == compile_expression(expressions[k], BodyContext) IN
             code.ok => Raised(code.out) = 1
    /\ Walking =>
          LET line == vm_code[vm_ip]
              depth == Len(vm_memory.stack)
          IN  /\ Consumed(line) <= depth
              /\ AtBoundary(vm_ip) => depth = 0
              /\ line.op = "return" => depth = 1

\* the walk is at the return of the second subroutine of a class with four
\* loops, one value on the stack
C29_Witness ==
    /\ Walking
    /\ vm_code[vm_ip].op = "return"
    /\ Len(vm_memory.stack) = 1
    /\ FunctionOf(vm_ip) > 1
    /\ ClassConstructs(class.subroutines, "While") = 4

-----------------------------------------------------------------------------
(* Branch labels of several classes in one assembly file *)

\* the names declared by the `label` commands of the compiled classes: the
\* labels of the while and if statements
BranchLabels ==
    UNION { { vm_files[f].ast[i].name :
                i \in {k \in DOMAIN vm_files[f].ast : vm_files[f].ast[k].op = "label"} } :
            f \in DOMAIN vm_files }
\* the lines of the combined file that declare such a label
BranchDeclarations ==
    { i \in DOMAIN final_assembly :
        /\ final_assembly[i].kind = "Label"
        /\ final_assembly[i].symbol \in BranchLabels }
Combined == stage = "compiler" /\ tr_pc = "done" /\ tr_result = "Ok"

\* C28: in the assembly file made of the VM files of several classes, every
\* label declaration that comes from a while or if statement is the only
\* declaration of its name, and a jump compiled in one class is bound to a
\* label of that class
C28_BranchLabelsUnique ==
    /\ Combined =>
          \A i, j \in BranchDeclarations :
              final_assembly[i].symbol = final_assembly[j].symbol => i = j
    /\ (Combined /\ asm_pc = "labels_found") =>
          \A n \in BranchLabels :
              Cardinality({i \in LabelPlaces(statements) : statements[i].symbol = n}) = 1

-----------------------------------------------------------------------------
(* What a program that ends with an error has written *)

\* C22: a program that ends with an error, whichever file could not be
\* read, parsed or translated, has written no file: no output and no dump or
\* symbol file, in directory mode as well
C22_NoPartialOutput ==
    (stage # "none" /\ exit \notin {"running", "Ok"}) => disk = <<>>

-----------------------------------------------------------------------------
(* References to labels, before and after the declaration *)

\* the symbols that pass 2 has to allocate: referenced, not predefined and
\* not declared as a label anywhere in the file
Variables ==
    {lines[i].symbol : i \in {k \in 1..Len(lines) : NewSymbolAt(k)}}

\* the source lines `@X` with X declared as a label somewhere in the file
LabelReferences ==
    {i \in 1..Len(lines) :
        lines[i].kind = "A" /\ lines[i].is_symbol /\ Declarations(lines[i].symbol) # {}}

\* C23: a reference `@X` to a symbol declared as a label, before or after
\* the reference, is encoded with the instruction address of the label; the
\* label takes no variable slot, so the variables are numbered 16, 17, ...
\* without gaps
C23_ForwardReferences ==
    /\ AfterVariables =>
          {symbol_table[n] : n \in Variables} = 16 .. (15 + Cardinality(Variables))
    /\ asm_pc = "written" =>
          \A i \in LabelReferences :
              binary[InstructionsBefore(i) + 1]
                 = InstructionsBefore(LastDeclaration(lines[i].symbol))

\* a label referenced before its declaration and again after it, and a
\* variable first referenced after the first reference to the label
C23_Witness ==
    /\ asm_pc = "written"
    /\ \E i, j, k \in 1..Len(lines) :
          /\ i < j /\ j < k
          /\ lines[i].kind = "A" /\ lines[i].is_symbol
          /\ lines[j] = LabelStmt(lines[i].symbol)
          /\ lines[k] = lines[i]
    /\ \E i, k \in 1..Len(lines) :
          /\ i < k
          /\ i \in LabelReferences
          /\ NewSymbolAt(k)
          /\ symbol_table[lines[k].symbol] = 16

-----------------------------------------------------------------------------
(* What the encoder is given *)

\* C24: after pass 1 and pass 2 every symbol that an A-instruction names is
\* bound in the symbol table and the list given to interpret_ast holds A and
\* C statements only, so interpret_ast meets neither an unknown symbol nor
\* a label
C24_SymbolCompleteness ==
    /\ AfterVariables =>
          /\ \A i \in 1..Len(lines) :
                (lines[i].kind = "A" /\ lines[i].is_symbol)
                   => lines[i].symbol \in DOMAIN symbol_table
          /\ \A i \in DOMAIN statements : statements[i].kind \in {"A", "C"}
    /\ asm_pc = "written" =>
          \A i \in DOMAIN binary : binary[i] \in 0 .. (WordMod - 1)

\* a file with a label, an empty line and a reference to a symbol that is
\* neither predefined nor a label has been encoded
C24_Witness ==
    /\ asm_pc = "written"
    /\ \E i, j, k \in 1..Len(lines) :
          /\ lines[i].kind = "Label"
          /\ lines[j].kind = "Empty"
          /\ NewSymbolAt(k)
          /\ binary[InstructionsBefore(k) + 1] = 16

-----------------------------------------------------------------------------
(* A constant from the VM file to the stack *)

IsPushRun == Len(Ast) = 1 /\ Ast[1].op = "push" /\ Ast[1].segment = "constant"

\* C25: for every number k that the VM parser reads in `push constant k`, the
\* translated statement is assembled, and when it has run the cell at the old
\* SP holds k and SP is one higher
C25_PushConstant ==
    IsPushRun =>
       /\ asm_pc # "ParsingError"
       /\ Finished => (ram[SP0] = Ast[1].address /\ ram[0] = SP0 + 1)

-----------------------------------------------------------------------------
(* The entry of a function *)

IsFunctionRun == Len(Ast) = 1 /\ Ast[1].op = "function"

\* the cells that `function F N` is to fill: N cells from the entry value of SP
NewLocals == SP0 .. (SP0 + Ast[1].num - 1)

\* C26: the expansion of `function F N` declares the label (F) and, once it
\* has run, the N cells from the entry value of SP hold 0, SP is N higher and
\* every other cell is as it was; with N = 0 no cell has changed
C26_FunctionEntry ==
    /\ (IsFunctionRun /\ tr_pc = "done") =>
          \E i \in DOMAIN final_assembly : final_assembly[i] = L(Ast[1].name)
    /\ (IsFunctionRun /\ Finished) =>
          /\ ram[0] = SP0 + Ast[1].num
          /\ \A c \in NewLocals : ram[c] = 0
          /\ \A c \in (DOMAIN ram) \ ({0} \cup NewLocals) : ram[c] = ram0[c]

-----------------------------------------------------------------------------
(* The loop of `return` that restores THAT, THIS, ARG and LCL *)

\* the first word of the loop, and the words of the loop up to its D;JGT
LoopStart == symbol_table["Foo.vm.RETURN_DMA_START_0"]
InLoop == asm_pc = "written" /\ pc \in LoopStart .. (Len(binary) - 4)

\* endFrame and the return address when `return` begins
EndFrame0 == ram0[1]
ReturnAddress0 == ram0[EndFrame0 - 5]

Returned == asm_pc = "written" /\ pc = ReturnAddress0

\* what one instruction of the loop may write: R13 and R14 go down by one,
\* and the only other cell written is the one R14 names, one of RAM[1..4],
\* which gets the word at the address in R13
LoopWrites ==
    InLoop =>
       \A c \in DOMAIN ram :
          ram'[c] # ram[c] =>
             \/ c = 13 /\ ram'[13] = ram[13] - 1
             \/ c = 14 /\ ram'[14] = ram[14] - 1
             \/ c \in 1 .. 4 /\ c = ram[14] /\ ram'[c] = ram[ram[13]]

\* C30: whatever R13, R14 and R15 held, the loop of `return` is entered with
\* R14 = 4, writes nothing but RAM[4], RAM[3], RAM[2], RAM[1] (in the order of
\* R14 going down) and its own two counters, never RAM[0], and ends after
\* four rounds: the machine then jumps to the return address read before
\* *ARG was written, with THAT, THIS, ARG, LCL = *(endFrame-1) .. *(endFrame-4)
C30_RestoreLoop ==
    /\ [][ /\ (asm_pc = "written" /\ pc = LoopStart - 1) => ram'[14] = 4
           /\ LoopWrites ]_vars
    /\ [](Returned =>
            /\ ram[13] = EndFrame0 - 4
            /\ ram[14] = 0
            /\ \A k \in 1 .. 4 : ram[5 - k] = ram0[EndFrame0 - k])
    /\ <>Returned

\* the function was called without arguments, so that the returned value
\* has replaced the return address in memory, and R14 held another number
\* than 4 when `return` began
C30_Witness ==
    /\ Returned
    /\ ram0[2] = EndFrame0 - 5
    /\ ram[EndFrame0 - 5] = Below
    /\ ram0[14] = 65535
    /\ ram[4] = 7 /\ ram[1] = 65535

====
